---- MODULE Spec2Model ----
(***************************************************************************)
(* A model of the plugin host, plugin discovery and render scripts of the  *)
(* MixMind repository.                                                     *)
(*                                                                         *)
(* Conventions.  Python floats in [0.0, 1.0] are modelled in hundredths    *)
(* (0.8 is 80, the range [0.0, 1.0] is <<0, 100>>).  Python strings that   *)
(* the code builds, slices or searches (bundle names, plugin ids, JSON     *)
(* number texts) are sequences of one-character strings; strings the code  *)
(* only passes around are TLA+ strings.  None is the empty sequence and a  *)
(* present value v is <<v>>.                                               *)
(***************************************************************************)
EXTENDS Integers, Sequences, FiniteSets, TLC

VARIABLES
    loaded_plugins,   \* RealVST3Host.loaded_plugins: plugin id -> instance
    plugin_keys,      \* insertion order of the loaded_plugins dict
    active_session,   \* RealVST3Host.active_session: <<>> or <<session>>
    call,             \* the most recent host call: operation and result
    session_file,     \* what the most recent call wrote to its file: <<>> or <<document>>
    audio,            \* the audio thread's frame in process_audio_block
    disk,             \* the system plugin directories the scanner looks at
    system_dirs,      \* RealVST3Scanner.system_dirs
    found,            \* the most recent scanner call: operation and result
    render,           \* the render script: where it is and what it holds
    input_file,       \* assets/audio/5sec_pink.wav: <<>> or <<file>>
    output_file,      \* artifacts/e2e_vst3_render.wav: <<>> or <<file>>
    pink,             \* the pink noise script: where it is and what it holds
    jobs,             \* Render Engine: the submitted jobs, in submission order
    limit,            \* Render Engine: the concurrency limit
    buses,            \* Audio Bus Graph: the buses, indexed by bus id
    edges,            \* Audio Bus Graph: the connections <<fromBus, toBus>>
    mixer_call,       \* the most recent bus graph call: operation and result
    lane,             \* Automation Engine: the points of the lane, in lane order
    lane_call,        \* the most recent lane edit: operation and grid size
    mask,             \* the pink noise loop at some index: the round it ran last
    stretch,          \* the time stretch script: where it is and what it holds
    artifacts,        \* the files of the time stretch script under artifacts/
    engine_call,      \* the most recent stretch_audio call: arguments and result
    alpha,            \* Validate_Alpha_Setup.main: where it is and what it holds
    phase             \* a phase validation script's main: where it is and what it holds

hostVars == <<loaded_plugins, plugin_keys, active_session, call, session_file>>

scanVars == <<disk, system_dirs, found>>

renderVars == <<render, input_file, output_file>>

\* the variables of the stand-alone scripts
toolVars == <<mask, stretch, artifacts, engine_call, alpha, phase>>

\* the variables of the other scripts and engines
moreVars == <<pink, jobs, limit, buses, edges, mixer_call, lane, lane_call,
              toolVars>>

vars == <<loaded_plugins, plugin_keys, active_session, call, session_file, audio,
          disk, system_dirs, found, render, input_file, output_file, pink,
          jobs, limit, buses, edges, mixer_call, lane, lane_call,
          mask, stretch, artifacts, engine_call, alpha, phase>>

-----------------------------------------------------------------------------
(* Bounds of the model *)

\* the host accepts at most this many successful loads in a run
MaxPlugins == 2

\* audio blocks handed to process_audio_block have at most this many samples
MaxBlockLen == 2

-----------------------------------------------------------------------------
(* Strings *)

LowerChar(c) ==
    CASE c = "S" -> "s"
      [] c = "A" -> "a"
      [] c = "N" -> "n"
      [] c = "P" -> "p"
      [] OTHER -> c

\* str.lower()
Lower(s) == [i \in 1..Len(s) |-> LowerChar(s[i])]

\* the Python test  sub in s  on strings
Contains(s, sub) ==
    \E i \in 1..(Len(s) - Len(sub) + 1) : SubSeq(s, i, i + Len(sub) - 1) = sub

Digit(d) ==
    CASE d = 0 -> "0" [] d = 1 -> "1" [] d = 2 -> "2" [] d = 3 -> "3"
      [] d = 4 -> "4" [] d = 5 -> "5" [] d = 6 -> "6" [] d = 7 -> "7"
      [] d = 8 -> "8" [] d = 9 -> "9"

DigitVal(c) == CHOOSE d \in 0..9 : Digit(d) = c

RECURSIVE IntRepr(_)
\* str(n) / the JSON text of a non-negative int
IntRepr(n) ==
    IF n < 10 THEN <<Digit(n)>> ELSE IntRepr(n \div 10) \o <<Digit(n % 10)>>

RECURSIVE ParseInt(_)
\* int(text) for a text of decimal digits
ParseInt(s) ==
    IF Len(s) = 0 THEN 0
    ELSE 10 * ParseInt(SubSeq(s, 1, Len(s) - 1)) + DigitVal(s[Len(s)])

\* position of the first c in s, 0 when there is none
IndexOf(s, c) ==
    IF \E i \in 1..Len(s) : s[i] = c
    THEN CHOOSE i \in 1..Len(s) : s[i] = c /\ \A j \in 1..(i - 1) : s[j] # c
    ELSE 0

\* a float text cut to one decimal
FloatReprOneDecimal(h) ==
    LET mag == IF h < 0 THEN -h ELSE h
    IN  (IF h < 0 THEN <<"-">> ELSE <<>>) \o IntRepr(mag \div 100) \o <<".">>
            \o <<Digit((mag % 100) \div 10)>>

\* repr() of a float given in hundredths: the shortest text that reads back
\* as the same float ("0.8", "0.25", "1.0")
FloatRepr(h) ==
    LET mag  == IF h < 0 THEN -h ELSE h
        frac == IF mag % 10 = 0 THEN <<Digit((mag % 100) \div 10)>>
                ELSE <<Digit((mag % 100) \div 10), Digit(mag % 10)>>
    IN  (IF h < 0 THEN <<"-">> ELSE <<>>) \o IntRepr(mag \div 100) \o <<".">> \o frac

\* float(text), in hundredths, for a text with at most two decimals
ParseFloat(s) ==
    LET neg  == Len(s) > 0 /\ s[1] = "-"
        body == IF neg THEN Tail(s) ELSE s
        dot  == IndexOf(body, ".")
        ip   == IF dot = 0 THEN body ELSE SubSeq(body, 1, dot - 1)
        fp   == IF dot = 0 THEN <<>> ELSE SubSeq(body, dot + 1, Len(body))
        frac == IF Len(fp) = 0 THEN 0
                ELSE IF Len(fp) = 1 THEN 10 * DigitVal(fp[1])
                ELSE 10 * DigitVal(fp[1]) + DigitVal(fp[2])
        mag  == 100 * ParseInt(ip) + frac
    IN  IF neg THEN -mag ELSE mag

-----------------------------------------------------------------------------
(* The file system the host looks at *)

VST3 == <<".", "v", "s", "t", "3">>

SerumName  == <<"S", "e", "r", "u", "m">>
ArcadeName == <<"A", "r", "c", "a", "d", "e">>

\* kind: what is at the path; binary: Contents/<arch>/<stem>.vst3 exists
BundlePaths ==
    { [stem |-> SerumName,  suffix |-> VST3, kind |-> "dir", binary |-> TRUE],
      [stem |-> Lower(SerumName), suffix |-> VST3, kind |-> "dir", binary |-> FALSE] }

BadPaths ==
    { [stem |-> <<"N", "o", "n", "e">>, suffix |-> VST3, kind |-> "absent", binary |-> FALSE],
      [stem |-> <<"N", "o", "t", "e">>, suffix |-> VST3, kind |-> "file",   binary |-> FALSE],
      [stem |-> <<"P", "r", "e">>,      suffix |-> <<>>, kind |-> "dir",    binary |-> FALSE] }

Paths == BundlePaths \cup BadPaths

\* str(plugin_path)
PathStr(p) == p.stem \o p.suffix

-----------------------------------------------------------------------------
(* RealVST3Host: values *)

None == <<>>
Some(v) == <<v>>

\* results of a call
RetNone      == [kind |-> "None",  val |-> <<>>]
RetBool(b)   == [kind |-> "bool",  val |-> <<b>>]
RetId(id)    == [kind |-> "id",    val |-> <<id>>]
RetValue(v)  == [kind |-> "value", val |-> <<v>>]
RetBlock(b)  == [kind |-> "block", val |-> <<b>>]
RetRaise(e)  == [kind |-> "raise", val |-> <<e>>]

Call(op, ret) == [op |-> op, ret |-> ret]

Param(v, lo, hi, display) == [value |-> v, range |-> <<lo, hi>>, name |-> display]

\* create_mock_parameters
create_mock_parameters(plugin_name) ==
    IF Contains(plugin_name, SerumName) THEN
        [oscillator1_wave |-> Param(50, 0, 100, "Osc 1 Wave"),
         oscillator2_wave |-> Param(30, 0, 100, "Osc 2 Wave"),
         filter_cutoff    |-> Param(70, 0, 100, "Filter Cutoff"),
         filter_resonance |-> Param(20, 0, 100, "Filter Resonance"),
         envelope_attack  |-> Param(10, 0, 100, "Envelope Attack"),
         envelope_decay   |-> Param(30, 0, 100, "Envelope Decay"),
         envelope_sustain |-> Param(80, 0, 100, "Envelope Sustain"),
         envelope_release |-> Param(40, 0, 100, "Envelope Release"),
         lfo_rate         |-> Param(50, 0, 100, "LFO Rate"),
         master_volume    |-> Param(80, 0, 100, "Master Volume")]
    ELSE IF Contains(plugin_name, ArcadeName) THEN
        [sample_select  |-> Param(0,   0, 100, "Sample Select"),
         pitch          |-> Param(50,  0, 100, "Pitch"),
         loop_start     |-> Param(0,   0, 100, "Loop Start"),
         loop_length    |-> Param(100, 0, 100, "Loop Length"),
         filter_freq    |-> Param(80,  0, 100, "Filter Frequency"),
         reverb_size    |-> Param(30,  0, 100, "Reverb Size"),
         delay_time     |-> Param(25,  0, 100, "Delay Time"),
         delay_feedback |-> Param(40,  0, 100, "Delay Feedback"),
         master_gain    |-> Param(75,  0, 100, "Master Gain")]
    ELSE
        [gain        |-> Param(80, 0, 100, "Gain"),
         low_freq    |-> Param(60, 0, 100, "Low Frequency"),
         mid_freq    |-> Param(70, 0, 100, "Mid Frequency"),
         high_freq   |-> Param(50, 0, 100, "High Frequency"),
         dry_wet_mix |-> Param(90, 0, 100, "Dry/Wet Mix")]

\* a bundle check that looks at the suffix alone
is_valid_vst3_bundle_suffix_only(path) == path.suffix = VST3

\* is_valid_vst3_bundle: path.is_dir() and path.suffix == '.vst3'
is_valid_vst3_bundle(path) == path.kind = "dir" /\ path.suffix = VST3

\* an id without the count of loaded plugins
PluginIdNoCount(plugin_name, n) == <<"v", "s", "t", "3", "_">> \o Lower(plugin_name)

\* the id load_real_plugin gives an instance: f"vst3_{name.lower()}_{len(loaded_plugins)}"
PluginId(plugin_name, n) ==
    <<"v", "s", "t", "3", "_">> \o Lower(plugin_name) \o <<"_">> \o IntRepr(n)

\* the plugin_instance dict built by load_real_plugin, binary_path included
\* when the bundle holds its binary
PluginInstance(path, n, session) ==
    LET plugin_name == path.stem
        base == [name          |-> plugin_name,
                 path          |-> PathStr(path),
                 id            |-> PluginId(plugin_name, n),
                 sample_rate   |-> session.sample_rate,
                 parameters    |-> create_mock_parameters(plugin_name),
                 audio_inputs  |-> 2,
                 audio_outputs |-> 2,
                 midi_inputs   |-> 1,
                 midi_outputs  |-> 0,
                 loaded        |-> TRUE,
                 active        |-> FALSE]
    IN  IF path.binary
        THEN base @@ [binary_path |-> PathStr(path) \o <<"/Contents/x86_64-win/">>
                                         \o plugin_name \o VST3]
        ELSE base

Max(a, b) == IF a >= b THEN a ELSE b
Min(a, b) == IF a <= b THEN a ELSE b

\* clamps that forget one side of the range
ClampUpperOnly(min_val, max_val, value) == Min(max_val, value)
ClampLowerOnly(min_val, max_val, value) == Max(min_val, value)

\* the clamp of set_parameter: max(min_val, min(max_val, value))
Clamp(min_val, max_val, value) == Max(min_val, Min(max_val, value))

\* a gain selection that does not look for master_gain
SelectGainNoMasterGain(parameters) ==
    LET gain == IF "gain" \in DOMAIN parameters THEN parameters["gain"].value ELSE 100
    IN  IF "master_volume" \in DOMAIN parameters THEN parameters["master_volume"].value
        ELSE gain

\* the gain process_audio_block applies
SelectGain(parameters) ==
    LET gain == IF "gain" \in DOMAIN parameters THEN parameters["gain"].value ELSE 100
    IN  IF "master_volume" \in DOMAIN parameters THEN parameters["master_volume"].value
        ELSE IF "master_gain" \in DOMAIN parameters THEN parameters["master_gain"].value
        ELSE gain

\* a gain stage that loses the first sample of the block
ApplyGainShort(audio_data, gain) ==
    LET rest == IF audio_data = <<>> THEN <<>> ELSE Tail(audio_data)
    IN  [i \in 1..Len(rest) |-> rest[i] * gain]

\* [sample * gain for sample in audio_data]; gain is in hundredths, so the
\* result is in hundredths of the input's unit
ApplyGain(audio_data, gain) == [i \in 1..Len(audio_data) |-> audio_data[i] * gain]

-----------------------------------------------------------------------------
(* RealVST3Host: operations.  Each method is an operator of the host object  *)
(* (self) and the arguments, giving the host after the call, the value      *)
(* returned and what the call wrote to its file.                            *)

\* the host object
Self == [loaded_plugins |-> loaded_plugins,
         plugin_keys    |-> plugin_keys,
         active_session |-> active_session]

Result(self, ret) == [self |-> self, ret |-> ret, file |-> None]

\* __init__
NewHost == [loaded_plugins |-> <<>>, plugin_keys |-> <<>>, active_session |-> None]

\* a create_audio_session that moves the loaded plugins to the new sample rate
create_audio_session_resampling(self, session_name, sample_rate, buffer_size) ==
    Result([self EXCEPT !.active_session =
                Some([name        |-> session_name,
                      sample_rate |-> sample_rate,
                      buffer_size |-> buffer_size,
                      tracks      |-> <<>>,
                      plugins     |-> <<>>]),
            !.loaded_plugins =
                [k \in DOMAIN @ |-> [@[k] EXCEPT !.sample_rate = sample_rate]]],
           RetBool(TRUE))

create_audio_session(self, session_name, sample_rate, buffer_size) ==
    Result([self EXCEPT !.active_session =
                Some([name        |-> session_name,
                      sample_rate |-> sample_rate,
                      buffer_size |-> buffer_size,
                      tracks      |-> <<>>,
                      plugins     |-> <<>>])],
           RetBool(TRUE))

\* dict assignment d[key] = value
DictSet(d, key, value) ==
    [k \in DOMAIN d \cup {key} |-> IF k = key THEN value ELSE d[k]]

load_real_plugin(self, plugin_path) ==
    IF plugin_path.kind = "absent" THEN Result(self, RetNone)
    ELSE IF ~is_valid_vst3_bundle(plugin_path) THEN Result(self, RetNone)
    ELSE IF self.active_session = None
         THEN \* self.active_session['sample_rate'] on None
              Result(self, RetRaise("TypeError"))
    ELSE LET plugin_instance ==
                 PluginInstance(plugin_path, Cardinality(DOMAIN self.loaded_plugins),
                                self.active_session[1])
             plugin_id == plugin_instance.id
         IN  Result([self EXCEPT
                        !.loaded_plugins = DictSet(@, plugin_id, plugin_instance),
                        !.plugin_keys = IF plugin_id \in DOMAIN self.loaded_plugins
                                        THEN @ ELSE Append(@, plugin_id)],
                    RetId(plugin_id))

\* an activation that switches every loaded plugin on
activate_plugin_all(self, plugin_id) ==
    IF plugin_id \notin DOMAIN self.loaded_plugins THEN Result(self, RetBool(FALSE))
    ELSE Result([self EXCEPT !.loaded_plugins =
                    [k \in DOMAIN @ |-> [@[k] EXCEPT !.active = TRUE]]],
                RetBool(TRUE))

activate_plugin(self, plugin_id) ==
    IF plugin_id \notin DOMAIN self.loaded_plugins THEN Result(self, RetBool(FALSE))
    ELSE Result([self EXCEPT !.loaded_plugins[plugin_id].active = TRUE], RetBool(TRUE))

\* a set_parameter on one parameter table that all instances share
set_parameter_shared(self, plugin_id, param_name, value) ==
    IF plugin_id \notin DOMAIN self.loaded_plugins THEN Result(self, RetBool(FALSE))
    ELSE IF param_name \notin DOMAIN self.loaded_plugins[plugin_id].parameters
         THEN Result(self, RetBool(FALSE))
    ELSE LET param == self.loaded_plugins[plugin_id].parameters[param_name]
             clamped_value == Clamp(param.range[1], param.range[2], value)
         IN  Result([self EXCEPT !.loaded_plugins =
                        [k \in DOMAIN @ |->
                            IF param_name \in DOMAIN @[k].parameters
                            THEN [@[k] EXCEPT !.parameters[param_name].value =
                                                  clamped_value]
                            ELSE @[k]]],
                    RetBool(TRUE))

set_parameter(self, plugin_id, param_name, value) ==
    IF plugin_id \notin DOMAIN self.loaded_plugins THEN Result(self, RetBool(FALSE))
    ELSE IF param_name \notin DOMAIN self.loaded_plugins[plugin_id].parameters
         THEN Result(self, RetBool(FALSE))
    ELSE LET param == self.loaded_plugins[plugin_id].parameters[param_name]
             clamped_value == Clamp(param.range[1], param.range[2], value)
         IN  Result([self EXCEPT
                        !.loaded_plugins[plugin_id].parameters[param_name].value =
                            clamped_value],
                    RetBool(TRUE))

\* a get_parameter that answers 0.0 for a parameter the plugin does not own
get_parameter_default(self, plugin_id, param_name) ==
    IF plugin_id \notin DOMAIN self.loaded_plugins THEN Result(self, RetNone)
    ELSE IF param_name \notin DOMAIN self.loaded_plugins[plugin_id].parameters
         THEN Result(self, RetValue(0))
    ELSE Result(self, RetValue(self.loaded_plugins[plugin_id].parameters[param_name].value))

get_parameter(self, plugin_id, param_name) ==
    IF plugin_id \notin DOMAIN self.loaded_plugins THEN Result(self, RetNone)
    ELSE IF param_name \notin DOMAIN self.loaded_plugins[plugin_id].parameters
         THEN Result(self, RetNone)
    ELSE Result(self, RetValue(self.loaded_plugins[plugin_id].parameters[param_name].value))

\* a process_audio_block that silences the block of a plugin that is not active
process_audio_block_muting(self, plugin_id, audio_data) ==
    IF plugin_id \notin DOMAIN self.loaded_plugins THEN Result(self, RetNone)
    ELSE LET plugin == self.loaded_plugins[plugin_id]
         IN  IF ~plugin.active
             THEN Result(self, RetBlock([i \in 1..Len(audio_data) |-> 0]))
             ELSE Result(self, RetBlock(ApplyGain(audio_data, SelectGain(plugin.parameters))))

\* a process_audio_block that switches the plugin on when it finds it off
process_audio_block_activating(self, plugin_id, audio_data) ==
    IF plugin_id \notin DOMAIN self.loaded_plugins THEN Result(self, RetNone)
    ELSE LET plugin == self.loaded_plugins[plugin_id]
         IN  IF ~plugin.active
             THEN Result([self EXCEPT !.loaded_plugins[plugin_id].active = TRUE],
                         RetBlock(audio_data))
             ELSE Result(self, RetBlock(ApplyGain(audio_data, SelectGain(plugin.parameters))))

process_audio_block(self, plugin_id, audio_data) ==
    IF plugin_id \notin DOMAIN self.loaded_plugins THEN Result(self, RetNone)
    ELSE LET plugin == self.loaded_plugins[plugin_id]
         IN  IF ~plugin.active THEN Result(self, RetBlock(audio_data))
             ELSE Result(self, RetBlock(ApplyGain(audio_data, SelectGain(plugin.parameters))))

RECURSIVE ProcessChain(_, _, _)
\* the processing loop of run_real_vst3_integration_test: the block goes
\* through the plugins of plugin_ids in order, the active ones processing it
ProcessChain(self, plugin_ids, processed_audio) ==
    IF plugin_ids = <<>> THEN processed_audio
    ELSE LET plugin_id == Head(plugin_ids)
             next == IF self.loaded_plugins[plugin_id].active
                     THEN process_audio_block(self, plugin_id, processed_audio).ret.val[1]
                     ELSE processed_audio
         IN  ProcessChain(self, Tail(plugin_ids), next)

-----------------------------------------------------------------------------
(* RealVST3Host: session persistence *)

\* JSON tokens: the text json.dump writes for a scalar
JNumber(text) == [json |-> "number", text |-> text]
JString(text) == [json |-> "string", text |-> text]
JBool(b)      == [json |-> "literal", text |-> IF b THEN "true" ELSE "false"]

IntFields  == {"sample_rate", "audio_inputs", "audio_outputs", "midi_inputs",
               "midi_outputs", "buffer_size"}
BoolFields == {"loaded", "active"}

DumpParameter(param) ==
    [value |-> JNumber(FloatRepr(param.value)),
     range |-> [i \in DOMAIN param.range |-> JNumber(FloatRepr(param.range[i]))],
     name  |-> JString(param.name)]

DumpPlugin(plugin) ==
    [k \in DOMAIN plugin |->
        IF k = "parameters"
        THEN [n \in DOMAIN plugin.parameters |-> DumpParameter(plugin.parameters[n])]
        ELSE IF k \in IntFields THEN JNumber(IntRepr(plugin[k]))
        ELSE IF k \in BoolFields THEN JBool(plugin[k])
        ELSE JString(plugin[k])]

DumpSession(session) ==
    [k \in DOMAIN session |->
        IF k \in IntFields THEN JNumber(IntRepr(session[k]))
        ELSE IF k = "name" THEN JString(session[k])
        ELSE session[k]]

\* json.dump(state, f): the document for the state dict of save_session_state
json_dump(state) ==
    [session   |-> DumpSession(state.session),
     plugins   |-> [id \in DOMAIN state.plugins |-> DumpPlugin(state.plugins[id])],
     timestamp |-> JString(state.timestamp)]

LoadParameter(doc) ==
    [value |-> ParseFloat(doc.value.text),
     range |-> [i \in DOMAIN doc.range |-> ParseFloat(doc.range[i].text)],
     name  |-> doc.name.text]

LoadPlugin(doc) ==
    [k \in DOMAIN doc |->
        IF k = "parameters"
        THEN [n \in DOMAIN doc.parameters |-> LoadParameter(doc.parameters[n])]
        ELSE IF k \in IntFields THEN ParseInt(doc[k].text)
        ELSE IF k \in BoolFields THEN doc[k].text = "true"
        ELSE doc[k].text]

LoadSession(doc) ==
    [k \in DOMAIN doc |->
        IF k \in IntFields THEN ParseInt(doc[k].text)
        ELSE IF k = "name" THEN doc[k].text
        ELSE doc[k]]

\* json.load of a document json_dump wrote
json_load(doc) ==
    [session   |-> LoadSession(doc.session),
     plugins   |-> [id \in DOMAIN doc.plugins |-> LoadPlugin(doc.plugins[id])],
     timestamp |-> doc.timestamp.text]

\* outcomes of open(filepath, 'w') and of the write
IoOutcomes == {"ok", "open_fails", "write_fails"}

\* what is left in the file when the write fails part-way
Truncated == [truncated |-> TRUE]

\* save_session_state, at a moment `now` and with the file system behaving as io
save_session_state(self, filename, now, io) ==
    IF self.active_session = None THEN Result(self, RetBool(FALSE))
    ELSE LET state == [session   |-> self.active_session[1],
                       plugins   |-> self.loaded_plugins,
                       timestamp |-> now]
         IN  [self |-> self,
              ret  |-> RetBool(io = "ok"),
              file |-> IF io = "open_fails" THEN None
                       ELSE IF io = "write_fails" THEN Some(Truncated)
                       ELSE Some(json_dump(state))]

-----------------------------------------------------------------------------
(* RealVST3Host: the calls a client makes *)

SampleRates == {44100}

Timestamps == {"2025-01-01T00:00:00"}

\* a handle no load ever returned
UnknownId == <<"v", "s", "t", "3", "_", "x", "_", "0">>

HandleInputs == DOMAIN loaded_plugins \cup {UnknownId}

ParamInputs == {"gain", "master_volume"}

\* 0.25 inside the range, -0.2 and 1.3 outside it
ValueInputs == {-20, 25, 130}

\* one period of the test tone of run_real_vst3_integration_test, in
\* integer sample units
TestTone == <<35, 50, 35, 0, -35, -50, -35, 0>>

\* test_audio of n samples
TestAudio(n) == [i \in 1..n |-> TestTone[((i - 1) % Len(TestTone)) + 1]]

\* the blocks the client processes: an empty one and a full one
BlockInputs == {TestAudio(0), TestAudio(MaxBlockLen)}

\* the host becomes r.self, the caller sees r.ret
Returns(op, r) ==
    /\ loaded_plugins' = r.self.loaded_plugins
    /\ plugin_keys' = r.self.plugin_keys
    /\ active_session' = r.self.active_session
    /\ call' = Call(op, r.ret)
    /\ session_file' = r.file
    /\ UNCHANGED <<audio, scanVars, renderVars, moreVars>>

HostInit ==
    /\ loaded_plugins = NewHost.loaded_plugins
    /\ plugin_keys = NewHost.plugin_keys
    /\ active_session = NewHost.active_session
    /\ call = Call("__init__", RetNone)
    /\ session_file = None

CreateAudioSession ==
    \E sample_rate \in SampleRates :
        Returns("create_audio_session",
                create_audio_session(Self, "RealVST3Session", sample_rate, 512))

\* the sample rates a client opens a session with
SessionRates == {44100, 48000}

CreateSessionAtRate ==
    \E sample_rate \in SessionRates :
        Returns("create_audio_session",
                create_audio_session(Self, "RealVST3Session", sample_rate, 512))

LoadRealPlugin ==
    \E plugin_path \in Paths :
        LET r == load_real_plugin(Self, plugin_path)
        IN  /\ Cardinality(DOMAIN r.self.loaded_plugins) <= MaxPlugins
            /\ Returns("load_real_plugin", r)

ActivatePlugin ==
    \E plugin_id \in HandleInputs :
        Returns("activate_plugin", activate_plugin(Self, plugin_id))

SetParameter ==
    \E plugin_id \in HandleInputs, param_name \in ParamInputs, value \in ValueInputs :
        Returns("set_parameter", set_parameter(Self, plugin_id, param_name, value))

GetParameter ==
    \E plugin_id \in HandleInputs, param_name \in ParamInputs :
        Returns("get_parameter", get_parameter(Self, plugin_id, param_name))

ProcessAudioBlock ==
    \E plugin_id \in HandleInputs, audio_data \in BlockInputs :
        Returns("process_audio_block", process_audio_block(Self, plugin_id, audio_data))

\* the audio processing test of run_real_vst3_integration_test: the test
\* block goes through the loaded plugins in load order
RunChain ==
    \E audio_data \in BlockInputs :
        Returns("process_chain",
                Result(Self, RetBlock(ProcessChain(Self, plugin_keys, audio_data))))

SaveSessionState ==
    \E now \in Timestamps, io \in IoOutcomes :
        Returns("save_session_state",
                save_session_state(Self, "real_vst3_session.json", now, io))

-----------------------------------------------------------------------------
(* process_audio_block on the audio thread, statement by statement, while   *)
(* the control thread calls the host.  A dict read or write is one step.    *)

\* no block is being processed; ret is what the last call returned
AudioIdle ==
    [pc |-> "idle", plugin_id |-> <<>>, audio_data |-> <<>>, gain |-> None,
     processed_data |-> <<>>, ret |-> RetNone]

\* the call is made
AudioCall ==
    /\ audio.pc = "idle"
    /\ \E plugin_id \in HandleInputs, audio_data \in BlockInputs :
           audio' = [AudioIdle EXCEPT !.pc = "check_loaded",
                                      !.plugin_id = plugin_id,
                                      !.audio_data = audio_data]
    /\ UNCHANGED <<hostVars, scanVars, renderVars, moreVars>>

\* if plugin_id not in self.loaded_plugins: return None
AudioCheckLoaded ==
    /\ audio.pc = "check_loaded"
    /\ audio' = IF audio.plugin_id \notin DOMAIN loaded_plugins
                THEN [audio EXCEPT !.pc = "idle", !.ret = RetNone]
                ELSE [audio EXCEPT !.pc = "check_active"]
    /\ UNCHANGED <<hostVars, scanVars, renderVars, moreVars>>

\* if not plugin['active']: return audio_data
AudioCheckActive ==
    /\ audio.pc = "check_active"
    /\ audio' = IF ~loaded_plugins[audio.plugin_id].active
                THEN [audio EXCEPT !.pc = "idle", !.ret = RetBlock(audio.audio_data)]
                ELSE [audio EXCEPT !.pc = "read_gain"]
    /\ UNCHANGED <<hostVars, scanVars, renderVars, moreVars>>

\* gain = plugin['parameters'].get('gain', {}).get('value', 1.0)
AudioReadGain ==
    /\ audio.pc = "read_gain"
    /\ LET parameters == loaded_plugins[audio.plugin_id].parameters
       IN  audio' = [audio EXCEPT
                        !.pc = "read_master",
                        !.gain = IF "gain" \in DOMAIN parameters
                                 THEN Some(parameters["gain"].value) ELSE Some(100)]
    /\ UNCHANGED <<hostVars, scanVars, renderVars, moreVars>>

\* the master_volume / master_gain override of gain
AudioReadMaster ==
    /\ audio.pc = "read_master"
    /\ LET parameters == loaded_plugins[audio.plugin_id].parameters
       IN  audio' = [audio EXCEPT
                        !.pc = "scale",
                        !.gain = IF "master_volume" \in DOMAIN parameters
                                 THEN Some(parameters["master_volume"].value)
                                 ELSE IF "master_gain" \in DOMAIN parameters
                                 THEN Some(parameters["master_gain"].value)
                                 ELSE @]
    /\ UNCHANGED <<hostVars, scanVars, renderVars, moreVars>>

\* a scaling loop that reads the parameter again for every sample
AudioScaleLive ==
    /\ audio.pc = "scale"
    /\ IF Len(audio.processed_data) < Len(audio.audio_data)
       THEN audio' = [audio EXCEPT !.processed_data =
                         Append(@, audio.audio_data[Len(@) + 1]
                                     * SelectGain(loaded_plugins[audio.plugin_id].parameters))]
       ELSE audio' = [audio EXCEPT !.pc = "return"]
    /\ UNCHANGED <<hostVars, scanVars, renderVars, moreVars>>

\* [sample * gain for sample in audio_data], one sample a step
AudioScale ==
    /\ audio.pc = "scale"
    /\ IF Len(audio.processed_data) < Len(audio.audio_data)
       THEN audio' = [audio EXCEPT !.processed_data =
                         Append(@, audio.audio_data[Len(@) + 1] * audio.gain[1])]
       ELSE audio' = [audio EXCEPT !.pc = "return"]
    /\ UNCHANGED <<hostVars, scanVars, renderVars, moreVars>>

\* return processed_data
AudioReturn ==
    /\ audio.pc = "return"
    /\ audio' = [audio EXCEPT !.pc = "idle", !.ret = RetBlock(audio.processed_data)]
    /\ UNCHANGED <<hostVars, scanVars, renderVars, moreVars>>

-----------------------------------------------------------------------------
(* RealVST3Scanner: the disk it looks at.  A path is a system directory   *)
(* (root) followed by the names below it (parts); a name is a sequence of  *)
(* characters.                                                             *)

\* a system directory holds at most this many entries (both directories
\* together)
MaxEntries == 2

ProgramFiles    == "C:/Program Files/Common Files/VST3"
ProgramFilesX86 == "C:/Program Files (x86)/Common Files/VST3"

SpanName    == <<"S", "p", "a", "n">>
NovaName    == <<"T", "D", "R", " ", "N", "o", "v", "a">>
PresetsName == <<"P", "r", "e", "s", "e", "t", "s">>
TokyoName   == <<"T", "o", "k", "y", "o", " ", "D", "a", "w", "n", " ", "L", "a", "b", "s">>

DiskPath(root, parts) == [root |-> root, parts |-> parts]

\* path / name
Join(path, name) == [path EXCEPT !.parts = Append(@, name)]

Entry(name, kind, children) == [name |-> name, kind |-> kind, children |-> children]

\* what a system directory may hold: Span.vst3 and TDR Nova.vst3, each as a
\* bundle directory or as a regular file, a directory that is no bundle, and
\* the vendor directory with TDR Nova.vst3 in it
Entries ==
    { Entry(SpanName \o VST3, "dir", <<>>),
      Entry(SpanName \o VST3, "file", <<>>),
      Entry(NovaName \o VST3, "dir", <<>>),
      Entry(NovaName \o VST3, "file", <<>>),
      Entry(PresetsName, "dir", <<>>),
      Entry(TokyoName, "dir", <<[name |-> NovaName \o VST3, kind |-> "dir"]>>),
      Entry(TokyoName, "dir", <<[name |-> NovaName \o VST3, kind |-> "file"]>>) }

NoDir    == [kind |-> "absent", entries |-> <<>>, denied |-> None]
NotADir  == [kind |-> "file",   entries |-> <<>>, denied |-> None]
\* a system directory whose status cannot be read (a parent directory denies
\* search permission): os.stat on it, or on anything below it, raises
\* PermissionError
NoAccess == [kind |-> "noaccess", entries |-> <<>>, denied |-> None]

\* directories of n entries in listing order; denied = <<k>> when the listing
\* raises PermissionError after it has produced k entries
Listings(n) ==
    { [kind |-> "dir", entries |-> e, denied |-> d] :
          e \in { s \in [1..n -> Entries] :
                      \A i, j \in 1..n : i < j => s[i].name # s[j].name },
          d \in {None} \cup {Some(k) : k \in 0..n} }

DirStates(n) ==
    (IF n = 0 THEN {NoDir, NotADir, NoAccess} ELSE {}) \cup Listings(n)

Disks ==
    UNION { { [root \in {<<ProgramFiles>>, <<ProgramFilesX86>>} |->
                  IF root = <<ProgramFiles>> THEN a ELSE b] :
                  a \in DirStates(n),
                  b \in UNION { DirStates(m) : m \in 0..(MaxEntries - n) } } :
            n \in 0..MaxEntries }

DirOf(fs, root) == IF root \in DOMAIN fs THEN fs[root] ELSE NoDir

\* the entry of that name in a listing: <<>> or <<entry>>
Lookup(entries, name) ==
    IF \E i \in 1..Len(entries) : entries[i].name = name
    THEN Some(entries[CHOOSE i \in 1..Len(entries) : entries[i].name = name])
    ELSE None

\* "absent", "file" or "dir"
PathKind(fs, path) ==
    LET dir == DirOf(fs, path.root)
    IN  IF Len(path.parts) = 0 \/ dir.kind = "noaccess" THEN dir.kind
        ELSE IF dir.kind # "dir" THEN "absent"
        ELSE LET e == Lookup(dir.entries, path.parts[1])
             IN  IF e = None THEN "absent"
                 ELSE IF Len(path.parts) = 1 THEN e[1].kind
                 ELSE IF e[1].kind # "dir" \/ Len(path.parts) > 2 THEN "absent"
                 ELSE LET c == Lookup(e[1].children, path.parts[2])
                      IN  IF c = None THEN "absent" ELSE c[1].kind

\* Path.exists() returns False only for the errors it ignores (ENOENT,
\* ENOTDIR, EBADF, ELOOP) and re-raises every other OSError of os.stat
stat_raises(fs, path) == PathKind(fs, path) = "noaccess"

\* Path.exists(), where os.stat did not raise
exists(fs, path) == PathKind(fs, path) # "absent"

\* Path.is_dir()
is_dir(fs, path) == PathKind(fs, path) = "dir"

\* Path.name
PathName(path) == path.parts[Len(path.parts)]

\* position of the last c in s, 0 when there is none
LastIndexOf(s, c) ==
    IF \E i \in 1..Len(s) : s[i] = c
    THEN CHOOSE i \in 1..Len(s) : s[i] = c /\ \A j \in (i + 1)..Len(s) : s[j] # c
    ELSE 0

\* Path.suffix: the name from its last dot on, when the dot is inside the name
PathSuffix(path) ==
    LET name == PathName(path)
        dot  == LastIndexOf(name, ".")
    IN  IF 1 < dot /\ dot < Len(name) THEN SubSeq(name, dot, Len(name)) ELSE <<>>

\* str.endswith
EndsWith(s, tail) ==
    Len(s) >= Len(tail) /\ SubSeq(s, Len(s) - Len(tail) + 1, Len(s)) = tail

-----------------------------------------------------------------------------
(* RealVST3Scanner: operations *)

RetList(l) == [kind |-> "list", val |-> <<l>>]
RetInfo(i) == [kind |-> "info", val |-> <<i>>]

\* get_system_vst3_directories
get_system_vst3_directories(os_name, platform, user_profile) ==
    IF os_name = "nt" THEN
        <<<<ProgramFiles>>, <<ProgramFilesX86>>>>
            \o (IF user_profile # None
                THEN <<<<user_profile[1], "AppData/Roaming/VST3">>,
                       <<user_profile[1], "Documents/VST3">>>>
                ELSE <<>>)
    ELSE IF platform = "darwin" THEN
        <<<<"/Library/Audio/Plug-Ins/VST3">>,
          <<"~", "Library/Audio/Plug-Ins/VST3">>,
          <<"/System/Library/Audio/Plug-Ins/VST3">>>>
    ELSE
        <<<<"/usr/lib/vst3">>, <<"/usr/local/lib/vst3">>, <<"~", ".vst3">>>>

\* the platforms the scanner is constructed on
Platforms ==
    { [os_name |-> "nt", platform |-> "win32", user_profile |-> u] :
          u \in {None, Some("C:/Users/user")} }

\* RealVST3Scanner.is_valid_vst3_bundle
scanner_is_valid_vst3_bundle(fs, path) == is_dir(fs, path) /\ PathSuffix(path) = VST3

\* extract_plugin_name
extract_plugin_name(plugin_path) ==
    LET filename == PathName(plugin_path)
    IN  IF EndsWith(filename, VST3) THEN SubSeq(filename, 1, Len(filename) - 5)
        ELSE filename

\* extract_plugin_info; the search for the binary under Contents only prints
extract_plugin_info(plugin_path) ==
    [name |-> extract_plugin_name(plugin_path),
     path |-> plugin_path,
     manufacturer |-> "Unknown",
     version |-> "Unknown",
     uid |-> "Unknown",
     is_valid |-> TRUE]

RECURSIVE ScanEntries(_, _, _, _, _)
\* the loop over dir_path.iterdir() for the first n entries of the listing
ScanEntries(fs, dir_path, entries, n, plugins) ==
    IF n = 0 THEN plugins
    ELSE LET before == ScanEntries(fs, dir_path, entries, n - 1, plugins)
             entry  == Join(dir_path, entries[n].name)
         IN  IF is_dir(fs, entry) /\ scanner_is_valid_vst3_bundle(fs, entry)
             THEN Append(before, extract_plugin_info(entry))
             ELSE before

\* one round of the loop over self.system_dirs: a directory that does not
\* exist is skipped; an exception of iterdir ends the scan of the directory
\* and keeps what was appended before it
ScanDir(fs, root, plugins) ==
    LET dir      == DirOf(fs, root)
        dir_path == DiskPath(root, <<>>)
    IN  IF ~exists(fs, dir_path) THEN plugins
        ELSE IF dir.kind # "dir" THEN plugins
        ELSE ScanEntries(fs, dir_path, dir.entries,
                         IF dir.denied = None THEN Len(dir.entries) ELSE dir.denied[1],
                         plugins)

RECURSIVE ScanDirs(_, _, _, _)
\* the loop over self.system_dirs from its i-th directory on; dir_path.exists()
\* is called outside the try statement, so an error it raises leaves the method
ScanDirs(fs, dirs, i, plugins) ==
    IF i > Len(dirs) THEN RetList(plugins)
    ELSE IF stat_raises(fs, DiskPath(dirs[i], <<>>))
    THEN RetRaise("PermissionError")
    ELSE ScanDirs(fs, dirs, i + 1, ScanDir(fs, dirs[i], plugins))

\* scan_system_plugins
scan_system_plugins(fs, dirs) == ScanDirs(fs, dirs, 1, <<>>)

RECURSIVE FirstExisting(_, _, _)
\* for path in paths: if path.exists(): return self.extract_plugin_info(path)
FirstExisting(fs, paths, i) ==
    IF i > Len(paths) THEN RetNone
    ELSE IF stat_raises(fs, paths[i]) THEN RetRaise("PermissionError")
    ELSE IF exists(fs, paths[i]) THEN RetInfo(extract_plugin_info(paths[i]))
    ELSE FirstExisting(fs, paths, i + 1)

span_paths ==
    << DiskPath(<<ProgramFiles>>, <<SpanName \o VST3>>),
       DiskPath(<<ProgramFilesX86>>, <<SpanName \o VST3>>) >>

nova_paths ==
    << DiskPath(<<ProgramFiles>>, <<NovaName \o VST3>>),
       DiskPath(<<ProgramFilesX86>>, <<NovaName \o VST3>>),
       DiskPath(<<ProgramFiles>>, <<TokyoName, NovaName \o VST3>>) >>

\* find_span_plugin
find_span_plugin(fs) == FirstExisting(fs, span_paths, 1)

\* find_tdr_nova_plugin
find_tdr_nova_plugin(fs) == FirstExisting(fs, nova_paths, 1)

\* the scanner's disk does not change; the caller sees ret
Found(op, ret) ==
    /\ found' = Call(op, ret)
    /\ UNCHANGED <<disk, system_dirs, hostVars, audio, renderVars, moreVars>>

ScannerInit ==
    /\ disk \in Disks
    /\ \E p \in Platforms :
           system_dirs = get_system_vst3_directories(p.os_name, p.platform, p.user_profile)
    /\ found = Call("__init__", RetNone)

ScanSystemPlugins == Found("scan_system_plugins", scan_system_plugins(disk, system_dirs))

FindSpanPlugin == Found("find_span_plugin", find_span_plugin(disk))

FindTdrNovaPlugin == Found("find_tdr_nova_plugin", find_tdr_nova_plugin(disk))

\* no scanner has been constructed
ScannerIdle ==
    /\ disk = [root \in {<<ProgramFiles>>, <<ProgramFilesX86>>} |-> NoDir]
    /\ system_dirs = <<>>
    /\ found = Call("", RetNone)

-----------------------------------------------------------------------------
(* create_vst3_render.py.  Samples are 16-bit integers; the float32        *)
(* arithmetic between reading and writing them is modelled exactly, with   *)
(* the truncation of astype(np.int16) at its end.                          *)

\* an input file holds at most this many frames
MaxFrames == 2

Wav(nchannels, sampwidth, framerate, nframes, frames) ==
    [nchannels |-> nchannels, sampwidth |-> sampwidth, framerate |-> framerate,
     nframes |-> nframes, frames |-> frames]

\* a buffer of samples: their number, and their values as <<sequence>> or, for
\* the 440 Hz sine whose values are not computed here, <<>>
Buffer(nframes, frames) == [nframes |-> nframes, frames |-> frames]

SampleInputs == {-32768, 1000, 32767}

\* assets/audio/5sec_pink.wav: absent, or a mono file of 8-bit or 16-bit samples
InputFiles ==
    {None} \cup
    { Some(Wav(1, sampwidth, 44100, Len(frames), Some(frames))) :
          sampwidth \in {1, 2},
          frames \in UNION {[1..k -> SampleInputs] : k \in 0..MaxFrames} }

\* the band gain applied at index i (from 0): 0.6, 0.7, 0.5 in tenths
BandGain(i) == CASE i % 3 = 0 -> 6 [] i % 3 = 1 -> 7 [] OTHER -> 5

\* final_audio_16bit[i]: (x/32768 * 0.1 + x/32768 * 0.8 * band * 0.9) * 32767,
\* cut toward zero as astype(np.int16) cuts a float.  With q = |x| * mix in
\* thousandths the value is q * 32767 / 32768000; the quotient is taken in
\* two parts to stay inside 32-bit integers.
FinalSample(x, i) ==
    LET mag   == IF x < 0 THEN -x ELSE x
        q     == mag * (100 + 8 * BandGain(i) * 9)
        whole == q \div 1000
        rest  == 32768 * (q % 1000) - q
        cut   == whole + (rest \div 32768000)
    IN  IF x < 0 THEN -cut ELSE cut

\* final_audio_16bit
final_audio_16bit(audio_data) ==
    [i \in 1..Len(audio_data) |-> FinalSample(audio_data[i], i - 1)]

\* the first k samples of a buffer
Written(buffer, k) ==
    Buffer(k, IF buffer.frames = None THEN None
              ELSE Some(SubSeq(buffer.frames[1], 1, k)))

\* how many frames a write that fails may have put in the file
PartialCounts(nframes) == {k \in 0..MaxFrames : k = 0 \/ k < nframes}

RenderStart ==
    [pc |-> "makedirs", status |-> "running", format |-> None, samples |-> None,
     error |-> None]

RenderInit ==
    /\ render = RenderStart
    /\ input_file \in InputFiles
    /\ output_file = None

\* the script is not run
RenderIdle ==
    /\ render = [RenderStart EXCEPT !.pc = "exit", !.status = "idle"]
    /\ input_file = None
    /\ output_file = None

RenderStep(next) ==
    /\ render' = next
    /\ UNCHANGED <<input_file, hostVars, audio, scanVars, moreVars>>

\* os.makedirs("artifacts", exist_ok=True)
RenderMakedirs ==
    /\ render.pc = "makedirs"
    /\ RenderStep([render EXCEPT !.pc = "check_input"])
    /\ UNCHANGED output_file

\* if os.path.exists(input_file)
RenderCheckInput ==
    /\ render.pc = "check_input"
    /\ RenderStep([render EXCEPT !.pc = IF input_file # None THEN "read" ELSE "dummy"])
    /\ UNCHANGED output_file

\* the input is read; a sample width other than 2 raises ValueError
RenderRead ==
    /\ render.pc = "read"
    /\ LET wav == input_file[1]
       IN  IF wav.sampwidth = 2
           THEN RenderStep([render EXCEPT
                    !.pc = "process",
                    !.format = Some([nchannels |-> wav.nchannels,
                                     sampwidth |-> wav.sampwidth,
                                     framerate |-> wav.framerate]),
                    !.samples = Some(Buffer(wav.nframes, wav.frames))])
           ELSE RenderStep([render EXCEPT !.pc = "exit", !.status = "failed",
                                          !.error = Some("ValueError")])
    /\ UNCHANGED output_file

\* gain, band gains, dry/wet mix and the conversion back to 16 bit
RenderProcess ==
    /\ render.pc = "process"
    /\ RenderStep([render EXCEPT
           !.pc = "open_output",
           !.samples = Some(Buffer(@[1].nframes, Some(final_audio_16bit(@[1].frames[1]))))])
    /\ UNCHANGED output_file

\* the dummy render: duration * sample_rate samples of a 440 Hz sine
RenderDummy ==
    /\ render.pc = "dummy"
    /\ LET sample_rate == 44100
           duration    == 5
       IN  RenderStep([render EXCEPT
               !.pc = "open_output",
               !.format = Some([nchannels |-> 1, sampwidth |-> 2,
                                framerate |-> sample_rate]),
               !.samples = Some(Buffer(duration * sample_rate, None))])
    /\ UNCHANGED output_file

\* wave.open(output_file, 'wb'): the file is created, empty, at the output
\* path itself, or the open raises
RenderOpenOutput ==
    /\ render.pc = "open_output"
    /\ \E opened \in BOOLEAN :
           IF opened
           THEN /\ RenderStep([render EXCEPT !.pc = "write"])
                /\ output_file' = Some(Written(render.samples[1], 0)
                                           @@ render.format[1] @@ [closed |-> FALSE])
           ELSE /\ RenderStep([render EXCEPT !.pc = "exit", !.status = "failed",
                                             !.error = Some("OSError")])
                /\ UNCHANGED output_file

\* writeframes and the close at the end of the with block: all frames are in
\* the file, or the write raises with some of them in it
RenderWrite ==
    /\ render.pc = "write"
    /\ \/ /\ RenderStep([render EXCEPT !.pc = "return"])
          /\ output_file' = Some(render.samples[1] @@ render.format[1]
                                     @@ [closed |-> TRUE])
       \/ \E k \in PartialCounts(render.samples[1].nframes) :
             /\ RenderStep([render EXCEPT !.pc = "exit", !.status = "failed",
                                          !.error = Some("OSError")])
             /\ output_file' = Some(Written(render.samples[1], k) @@ render.format[1]
                                        @@ [closed |-> TRUE])

\* the script returns
RenderReturn ==
    /\ render.pc = "return"
    /\ RenderStep([render EXCEPT !.pc = "exit", !.status = "completed"])
    /\ UNCHANGED output_file

-----------------------------------------------------------------------------
(* assets/audio/generate_pink_noise.py.  A source holds a whole number (the *)
(* draws of np.random.uniform are taken from RandomInputs); a sample of the *)
(* output is a fraction num/den.                                            *)

\* generate_pink_noise is asked for at most this many samples
MaxSamples == 3

\* bitwise and of two non-negative integers
RECURSIVE BitAnd(_, _)
BitAnd(a, b) ==
    IF a = 0 \/ b = 0 THEN 0
    ELSE (a % 2) * (b % 2) + 2 * BitAnd(a \div 2, b \div 2)

\* ~i + 1 on the low 20 bits, which hold every index and every 1 << j used
TwosComplement(i) == ((1048575 - i) + 1) % 1048576

\* a mask of every set bit of i
update_mask_all_bits(i) == BitAnd(i, i)

\* update_mask = i & (~i + 1)
update_mask(i) == BitAnd(i, TwosComplement(i))

\* the sources j with update_mask & (1 << j)
UpdatedSources(i, num_sources) ==
    {j \in 0..(num_sources - 1) : BitAnd(update_mask(i), 2 ^ j) # 0}

\* values np.random.uniform(-1, 1) may return
RandomInputs == {-1, 1}

\* an asked number of samples one short of duration * rate
num_samples_short(duration_seconds, sample_rate) == duration_seconds * sample_rate - 1

\* num_samples = int(duration_seconds * sample_rate)
num_samples(duration_seconds, sample_rate) == duration_seconds * sample_rate

Frac(num, den) == [num |-> num, den |-> den]

Abs(x) == IF x < 0 THEN -x ELSE x

RECURSIVE SumSeq(_, _)
\* np.sum of the first n elements
SumSeq(s, n) == IF n = 0 THEN 0 ELSE SumSeq(s, n - 1) + s[n]

\* np.max(np.abs(output)) of an output that is not empty, as a numerator over
\* the common denominator
MaxAbs(output) ==
    LET mags == {Abs(output[k].num) : k \in 1..Len(output)}
    IN  CHOOSE m \in mags : \A v \in mags : v <= m

\* output / max_val * 0.8
Normalized(output) ==
    LET max_val == MaxAbs(output)
    IN  IF max_val > 0
        THEN [k \in 1..Len(output) |-> Frac(8 * output[k].num, 10 * max_val)]
        ELSE output

\* (audio_data * 32767).astype(np.int16): the quotient cut toward zero
audio_16bit(audio_data) ==
    [k \in 1..Len(audio_data) |->
        LET num == audio_data[k].num * 32767
            den == audio_data[k].den
        IN  IF num >= 0 THEN num \div den ELSE -((-num) \div den)]

\* the file save_wav writes: tobytes gives two bytes a sample, and the wave
\* module counts a frame for every sampwidth * nchannels bytes
save_wav(audio_data, sample_rate) ==
    LET nchannels == 1
        sampwidth == 2
        data      == audio_16bit(audio_data)
        nbytes    == 2 * Len(data)
    IN  Wav(nchannels, sampwidth, sample_rate, nbytes \div (sampwidth * nchannels),
            Some(data))

\* bytes of sample data in a wave file
DataBytes(wav) == wav.nframes * wav.sampwidth * wav.nchannels

\* the calls of generate_pink_noise: whole seconds at a rate, with
\* duration * rate inside the bound
PinkInputs ==
    { args \in [duration_seconds : 0..MaxSamples, sample_rate : 1..MaxSamples] :
          args.duration_seconds * args.sample_rate <= MaxSamples }

PinkStart(args) ==
    [pc |-> "loop",
     duration_seconds |-> args.duration_seconds,
     sample_rate |-> args.sample_rate,
     num_samples |-> num_samples(args.duration_seconds, args.sample_rate),
     sources |-> [j \in 1..16 |-> 0],
     output |-> <<>>,
     error |-> None]

PinkInit == \E args \in PinkInputs : pink = PinkStart(args)

\* the script is not run
PinkIdle ==
    pink = [PinkStart([duration_seconds |-> 0, sample_rate |-> 1]) EXCEPT !.pc = "idle"]

PinkStep(next) ==
    /\ pink' = next
    /\ UNCHANGED <<hostVars, audio, scanVars, render, output_file, jobs, limit,
                   buses, edges, mixer_call, lane, lane_call, toolVars>>

\* one round of  for i in range(num_samples): the sources the mask names are
\* drawn again and output[i] is the mean of the sources
PinkSample ==
    /\ pink.pc = "loop"
    /\ Len(pink.output) < pink.num_samples
    /\ LET i == Len(pink.output)
           num_sources == Len(pink.sources)
       IN  \E draw \in [UpdatedSources(i, num_sources) -> RandomInputs] :
               LET sources == [j \in 1..num_sources |->
                                  IF (j - 1) \in DOMAIN draw THEN draw[j - 1]
                                  ELSE pink.sources[j]]
               IN  PinkStep([pink EXCEPT
                       !.sources = sources,
                       !.output = Append(@, Frac(SumSeq(sources, num_sources),
                                                 num_sources))])
    /\ UNCHANGED input_file

\* the loop is over: max_val and the scaling to 0.8; np.max of an empty output
\* raises ValueError
PinkNormalize ==
    /\ pink.pc = "loop"
    /\ Len(pink.output) >= pink.num_samples
    /\ IF Len(pink.output) = 0
       THEN PinkStep([pink EXCEPT !.pc = "exit", !.error = Some("ValueError")])
       ELSE PinkStep([pink EXCEPT !.pc = "save", !.output = Normalized(@)])
    /\ UNCHANGED input_file

\* save_wav("5sec_pink.wav", pink_noise)
PinkSave ==
    /\ pink.pc = "save"
    /\ PinkStep([pink EXCEPT !.pc = "exit"])
    /\ input_file' = Some(save_wav(pink.output, pink.sample_rate))

-----------------------------------------------------------------------------
(* Render Engine: the job queue, as the specification describes it (4.5,    *)
(* 5, 7).  A job is queued on submission, started by a worker when a slot   *)
(* is free, rendered chunk by chunk, and ends completed, cancelled (the     *)
(* cancellation flag is looked at between chunks) or failed.                *)

\* at most this many jobs are submitted
MaxJobs == 2

\* a job's time range is this many chunks long
MaxChunks == 2

Job(status, progress, cancel) ==
    [status |-> status, progress |-> progress, cancel |-> cancel]

\* the jobs a worker is rendering
RunningJobs(queue) == {j \in DOMAIN queue : queue[j].status = "running"}

\* a start that does not look at the concurrency limit
CanStartAlways(queue, concurrency, j) == queue[j].status = "queued"

\* a worker may take job j
CanStart(queue, concurrency, j) ==
    /\ queue[j].status = "queued"
    /\ Cardinality(RunningJobs(queue)) < concurrency

\* a cancellation that ends the job at once, whatever its status
CancelledAtOnce(job) ==
    IF job.status \in {"queued", "running"}
    THEN [job EXCEPT !.cancel = TRUE, !.status = "cancelled"]
    ELSE job

\* the job after its handle was asked to cancel: the flag is set, the status
\* is left to the job itself
CancelRequested(job) ==
    IF job.status \in {"queued", "running"} THEN [job EXCEPT !.cancel = TRUE] ELSE job

JobStep(queue) ==
    /\ jobs' = queue
    /\ UNCHANGED <<limit, hostVars, audio, scanVars, renderVars, pink,
                   buses, edges, mixer_call, lane, lane_call, toolVars>>

JobsInit ==
    /\ jobs = <<>>
    /\ limit \in 1..MaxJobs

\* no render engine
JobsIdle ==
    /\ jobs = <<>>
    /\ limit = 1

\* a render request is put in the queue
SubmitJob ==
    /\ Len(jobs) < MaxJobs
    /\ JobStep(Append(jobs, Job("queued", 0, FALSE)))

\* a worker takes a queued job
StartJob ==
    \E j \in DOMAIN jobs :
        /\ CanStart(jobs, limit, j)
        /\ JobStep([jobs EXCEPT ![j].status = "running"])

\* a running job that was not asked to cancel renders its next chunk
RenderChunk ==
    \E j \in DOMAIN jobs :
        /\ jobs[j].status = "running"
        /\ ~jobs[j].cancel
        /\ jobs[j].progress < MaxChunks
        /\ JobStep([jobs EXCEPT ![j].progress = @ + 1])

\* the caller asks a job to cancel
CancelJob ==
    \E j \in DOMAIN jobs :
        JobStep([jobs EXCEPT ![j] = CancelRequested(@)])

\* between two chunks a running job finds its cancellation flag set
ObserveCancel ==
    \E j \in DOMAIN jobs :
        /\ jobs[j].status = "running"
        /\ jobs[j].cancel
        /\ JobStep([jobs EXCEPT ![j].status = "cancelled"])

\* a write of a running job fails
FailJob ==
    \E j \in DOMAIN jobs :
        /\ jobs[j].status = "running"
        /\ JobStep([jobs EXCEPT ![j].status = "failed"])

\* a running job that has rendered its whole range completes
CompleteJob ==
    \E j \in DOMAIN jobs :
        /\ jobs[j].status = "running"
        /\ ~jobs[j].cancel
        /\ jobs[j].progress = MaxChunks
        /\ JobStep([jobs EXCEPT ![j].status = "completed"])

-----------------------------------------------------------------------------
(* Audio Bus Graph, as the specification describes it (3, 4.3, 9): an arena *)
(* of buses indexed by stable id (Master is bus 1) and routing stored as    *)
(* edges <<fromBus, toBus>> between ids.  A graph is [buses, edges].        *)

\* at most this many buses exist, Master included
MaxBuses == 3

Bus(type) == [type |-> type, mute |-> FALSE, solo |-> FALSE, latency |-> 0]

BusIds(g) == DOMAIN g.buses

Graph(bus_list, edge_set) == [buses |-> bus_list, edges |-> edge_set]

\* the graph of a new session: the Master bus alone
NewGraph == Graph(<<Bus("master")>>, {})

Accepted(g, ret) == [graph |-> g, ret |-> ret]

\* a refused operation changes nothing
Rejected(g) == [graph |-> g, ret |-> "rejected"]

\* createBus(type) -> BusId
createBus(g, type) ==
    Accepted([g EXCEPT !.buses = Append(@, Bus(type))], Len(g.buses) + 1)

RECURSIVE ReachableFrom(_, _)
\* the buses reached from the buses of start along edge_set, start included
ReachableFrom(edge_set, start) ==
    LET next == start \cup {e[2] : e \in {d \in edge_set : d[1] \in start}}
    IN  IF next = start THEN start ELSE ReachableFrom(edge_set, next)

\* a test that sees only loops and two-bus cycles
WouldCycleDirect(g, fromBus, toBus) ==
    fromBus = toBus \/ <<toBus, fromBus>> \in g.edges

\* the edge fromBus -> toBus would close a cycle
WouldCycle(g, fromBus, toBus) ==
    fromBus \in ReachableFrom(g.edges, {toBus})

\* connect(fromBus, toBus, sendSpec); the send's level and pre/post flag play
\* no part in routing and are left out
connect(g, fromBus, toBus) ==
    IF fromBus \notin BusIds(g) \/ toBus \notin BusIds(g) THEN Rejected(g)
    ELSE IF WouldCycle(g, fromBus, toBus) THEN Rejected(g)
    ELSE Accepted([g EXCEPT !.edges = @ \cup {<<fromBus, toBus>>}], "ok")

\* the graph becomes r.graph, the caller sees r.ret
Mixed(op, r) ==
    /\ buses' = r.graph.buses
    /\ edges' = r.graph.edges
    /\ mixer_call' = Call(op, r.ret)
    /\ UNCHANGED <<hostVars, audio, scanVars, renderVars, pink, jobs, limit,
                   lane, lane_call, toolVars>>

TheGraph == Graph(buses, edges)

GraphInit ==
    /\ buses = NewGraph.buses
    /\ edges = NewGraph.edges
    /\ mixer_call = Call("", "ok")

\* the types createBus is called with
BusTypes == {"group", "aux"}

\* the bus ids callers pass: every bus and one id that names no bus
BusInputs == 1..(Len(buses) + 1)

CreateBus ==
    /\ Len(buses) < MaxBuses
    /\ \E type \in BusTypes : Mixed("createBus", createBus(TheGraph, type))

Connect ==
    \E fromBus \in BusInputs, toBus \in BusInputs :
        Mixed("connect", connect(TheGraph, fromBus, toBus))

\* the edges turned round
Reverse(edge_set) == {<<e[2], e[1]>> : e \in edge_set}

Soloed(g) == {b \in BusIds(g) : g.buses[b].solo}

\* the buses of start, the buses they feed and the buses that feed them
Related(g, start) ==
    ReachableFrom(g.edges, start) \cup ReachableFrom(Reverse(g.edges), start)

\* solo-in-place: with no bus soloed a bus is heard unless it is muted; with a
\* bus soloed it is heard when it is not muted and is related to a soloed bus
audible(g, b) ==
    /\ ~g.buses[b].mute
    /\ Soloed(g) = {} \/ b \in Related(g, Soloed(g))

\* a solo that is kept by writing the mute flags of the other buses
setSoloByMuting(g, busId, flag) ==
    IF busId \notin BusIds(g) THEN Rejected(g)
    ELSE LET flagged == [g EXCEPT !.buses[busId].solo = flag]
         IN  Accepted([flagged EXCEPT !.buses =
                          [b \in BusIds(g) |->
                              [flagged.buses[b] EXCEPT !.mute =
                                  /\ Soloed(flagged) # {}
                                  /\ b \notin Related(flagged, Soloed(flagged))]]],
                      "ok")

\* setSolo(busId, true|false)
setSolo(g, busId, flag) ==
    IF busId \notin BusIds(g) THEN Rejected(g)
    ELSE Accepted([g EXCEPT !.buses[busId].solo = flag], "ok")

\* setMute(busId, true|false)
setMute(g, busId, flag) ==
    IF busId \notin BusIds(g) THEN Rejected(g)
    ELSE Accepted([g EXCEPT !.buses[busId].mute = flag], "ok")

SetSolo ==
    \E busId \in BusInputs, flag \in BOOLEAN :
        Mixed("setSolo", setSolo(TheGraph, busId, flag))

SetMute ==
    \E busId \in BusInputs, flag \in BOOLEAN :
        Mixed("setMute", setMute(TheGraph, busId, flag))

\* the latency the gain plugin of the example reports, in samples
GainLatency == 64

LatencyInputs == {GainLatency \div 2, GainLatency}

\* an effect reporting a latency is loaded into the chain of a bus: the bus
\* tracks the maximum reported latency of its effects chain
insertEffect(g, busId, reported) ==
    IF busId \notin BusIds(g) THEN Rejected(g)
    ELSE Accepted([g EXCEPT !.buses[busId].latency = Max(@, reported)], "ok")

\* the buses connected to b
Feeds(g, b) == {e[1] : e \in {d \in g.edges : d[2] = b}}

MaxOf(S) == CHOOSE m \in S : \A v \in S : v <= m

RECURSIVE Arrival(_, _)
\* the cumulative latency of the signal that leaves bus b: the latest of what
\* comes in, its own input included, and then its effects chain
Arrival(g, b) ==
    g.buses[b].latency + MaxOf({0} \cup {Arrival(g, u) : u \in Feeds(g, b)})

\* the latency of the latest signal that comes into bus b
MaxIn(g, b) == MaxOf({0} \cup {Arrival(g, u) : u \in Feeds(g, b)})

\* the delay on the own input of bus b
inputCompensation(g, b) == MaxIn(g, b)

\* a compensation that looks at the chains of the connected buses only
compensationLocal(g, fromBus, toBus) ==
    MaxOf({g.buses[u].latency : u \in Feeds(g, toBus)}) - g.buses[fromBus].latency

\* the delay buffer on the connection fromBus -> toBus
compensation(g, fromBus, toBus) ==
    MaxIn(g, toBus) - Arrival(g, fromBus)

InsertEffect ==
    \E busId \in BusInputs, reported \in LatencyInputs :
        Mixed("insertEffect", insertEffect(TheGraph, busId, reported))

-----------------------------------------------------------------------------
(* Automation Engine: the points of one lane and its editing operations.   *)
(* Times are ticks, values are halves of the parameter range.              *)

MaxTime == 3
MaxPoints == 3
MaxGrid == 2

\* the greatest value of a point: the top of the parameter range
FullValue == 2

Point(time, value) == [time |-> time, value |-> value]

\* the points of l before time t and after time t
Before(l, t) == SelectSeq(l, LAMBDA p : p.time < t)
After(l, t) == SelectSeq(l, LAMBDA p : p.time > t)

\* a point is drawn at time t: it takes the place of a point at that time
draw(l, t, v) == Before(l, t) \o <<Point(t, v)>> \o After(l, t)

\* the points from time a to time b are erased
erase(l, a, b) == SelectSeq(l, LAMBDA p : p.time < a \/ p.time > b)

\* the lane is trimmed to the points from time a to time b
trim(l, a, b) == SelectSeq(l, LAMBDA p : a <= p.time /\ p.time <= b)

\* the values are stretched over the whole range
normalize(l) ==
    IF l = <<>> THEN l
    ELSE LET values == {l[i].value : i \in DOMAIN l}
             lo     == CHOOSE m \in values : \A v \in values : m <= v
             hi     == CHOOSE m \in values : \A v \in values : v <= m
         IN  IF lo = hi THEN l
             ELSE [i \in DOMAIN l |->
                      [l[i] EXCEPT !.value = ((@ - lo) * FullValue) \div (hi - lo)]]

\* the values are mirrored in the range
invert(l) == [i \in DOMAIN l |-> [l[i] EXCEPT !.value = FullValue - @]]

\* a point between two others takes the mean of the three values
smooth(l) ==
    [i \in DOMAIN l |->
        IF 1 < i /\ i < Len(l)
        THEN [l[i] EXCEPT !.value = (l[i - 1].value + @ + l[i + 1].value) \div 3]
        ELSE l[i]]

\* the grid time nearest to t, the later one of two that are as near
Snap(t, g) == ((2 * t + g) \div (2 * g)) * g

RECURSIVE Merged(_)
\* of the points of one time only the first is kept
Merged(l) ==
    IF Len(l) <= 1 THEN l
    ELSE LET front == Merged(SubSeq(l, 1, Len(l) - 1))
         IN  IF front[Len(front)].time = l[Len(l)].time THEN front
             ELSE Append(front, l[Len(l)])

\* a quantize that keeps one point a grid time
quantizeMerged(l, g) ==
    Merged([i \in DOMAIN l |-> [l[i] EXCEPT !.time = Snap(@, g)]])

\* quantize-to-grid: every point time is snapped to the nearest grid time, the
\* points stay as many and in their order
quantize(l, g) == [i \in DOMAIN l |-> [l[i] EXCEPT !.time = Snap(@, g)]]

\* the points from time a to time b, their times counted from a
copy(l, a, b) ==
    LET cut == trim(l, a, b)
    IN  [i \in DOMAIN cut |-> [cut[i] EXCEPT !.time = @ - a]]

\* the clip is laid over the lane from time at on
paste(l, clip, at) ==
    IF clip = <<>> THEN l
    ELSE Before(l, at)
           \o [i \in DOMAIN clip |-> [clip[i] EXCEPT !.time = @ + at]]
           \o After(l, at + clip[Len(clip)].time)

LaneCall(op, g) == [op |-> op, g |-> g]

LaneInit ==
    /\ lane = <<>>
    /\ lane_call = LaneCall("", 0)

\* the lane becomes l
Edited(op, g, l) ==
    /\ lane' = l
    /\ lane_call' = LaneCall(op, g)
    /\ UNCHANGED <<hostVars, audio, scanVars, renderVars, pink, jobs, limit,
                   buses, edges, mixer_call, toolVars>>

TimeInputs == 0..MaxTime

PointValues == 0..FullValue

GridInputs == 1..MaxGrid

Draw ==
    \E t \in TimeInputs, v \in PointValues :
        /\ Len(draw(lane, t, v)) <= MaxPoints
        /\ Edited("draw", 0, draw(lane, t, v))

Erase ==
    \E a \in TimeInputs, b \in TimeInputs :
        /\ a <= b
        /\ Edited("erase", 0, erase(lane, a, b))

Trim ==
    \E a \in TimeInputs, b \in TimeInputs :
        /\ a <= b
        /\ Edited("trim", 0, trim(lane, a, b))

Normalize == Edited("normalize", 0, normalize(lane))

Invert == Edited("invert", 0, invert(lane))

Smooth == Edited("smooth", 0, smooth(lane))

Quantize == \E g \in GridInputs : Edited("quantize", g, quantize(lane, g))

CopyPaste ==
    \E a \in TimeInputs, b \in TimeInputs, at \in TimeInputs :
        LET pasted == paste(lane, copy(lane, a, b), at)
        IN  /\ a <= b
            /\ Len(pasted) <= MaxPoints
            /\ \A i \in DOMAIN pasted : pasted[i].time <= MaxTime
            /\ Edited("paste", 0, pasted)

-----------------------------------------------------------------------------
(* generate_pink_noise: the update mask of the loop.  The loop passes      *)
(* through every index below num_samples; it is entered here at an index   *)
(* of StartIndices and followed for MaxRounds rounds.                       *)

\* rounds of the loop followed from a start index
MaxRounds == 20

\* the indices at which the loop is entered: its start, and just before the
\* multiples of 2^15 that 5 seconds at 44100 Hz pass through
StartIndices == {0, 32767, 65535, 98303, 131071, 196607}

\* the round at index i: its mask and the sources drawn again
Round(i, num_sources) ==
    [i |-> i, update_mask |-> update_mask(i), updated |-> UpdatedSources(i, num_sources)]

MaskStart(start) == [pc |-> "loop", start |-> start, i |-> start, last |-> None]

MaskInit == \E start \in StartIndices : mask = MaskStart(start)

\* the loop is not run
MaskIdle == mask = [MaskStart(0) EXCEPT !.pc = "idle"]

\* one round of  for i in range(num_samples)
MaskRound ==
    /\ mask.pc = "loop"
    /\ mask.i < mask.start + MaxRounds
    /\ mask' = [mask EXCEPT !.i = @ + 1, !.last = Some(Round(mask.i, 16))]
    /\ UNCHANGED <<hostVars, audio, scanVars, renderVars, pink, jobs, limit,
                   buses, edges, mixer_call, lane, lane_call,
                   stretch, artifacts, engine_call, alpha, phase>>

-----------------------------------------------------------------------------
(* test_rubberband.py.  A block is a numpy array: its dtype and its         *)
(* samples, each a fraction num/den in lowest terms.  In an int16 block     *)
(* den is 1; the samples of a float32 block are in units of 1/32768 (the    *)
(* float of the 16-bit sample v is v/1).  A stretch ratio is in hundredths. *)

Block(dtype, samples) == [dtype |-> dtype, samples |-> samples]

RECURSIVE Gcd(_, _)
Gcd(a, b) == IF b = 0 THEN a ELSE Gcd(b, a % b)

\* num/den in lowest terms, den > 0
Reduced(num, den) ==
    LET g == Gcd(Abs(num), den)
    IN  Frac(num \div g, den \div g)

\* the quotient cut toward zero, den > 0
Trunc(num, den) == IF num >= 0 THEN num \div den ELSE -((-num) \div den)

\* ndarray.astype(dtype) of fractions: an integer dtype cuts toward zero
astype(values, dtype) ==
    Block(dtype,
          [k \in 1..Len(values) |->
              IF dtype = "int16" THEN Frac(Trunc(values[k].num, values[k].den), 1)
              ELSE values[k]])

\* np.linspace(0, input_length - 1, output_length): no point, the point 0, or
\* the points k * (input_length - 1) / (output_length - 1)
linspace(input_length, output_length) ==
    IF output_length = 1 THEN <<Frac(0, 1)>>
    ELSE [k \in 1..output_length |->
             Reduced((k - 1) * (input_length - 1), output_length - 1)]

\* np.interp at one point x of 0 .. len(fp) - 1 over the sample points
\* 0, 1, ..: fp at a sample point, the line between its neighbours elsewhere
interp_at(x, fp) ==
    LET j == x.num \div x.den
        r == x.num % x.den
    IN  IF r = 0 THEN fp[j + 1]
        ELSE LET a == fp[j + 1]
                 b == fp[j + 2]
             IN  Reduced(a.num * x.den * b.den + r * (b.num * a.den - a.num * b.den),
                         x.den * a.den * b.den)

\* an output one sample short
output_length_short(input_length, stretch_ratio) ==
    IF input_length * stretch_ratio >= 100
    THEN (input_length * stretch_ratio) \div 100 - 1
    ELSE 0

\* output_length = int(input_length * stretch_ratio)
output_length(input_length, stretch_ratio) == (input_length * stretch_ratio) \div 100

\* TimeStretchEngine.stretch_audio; np.interp raises ValueError ("array of
\* sample points is empty") when it is given no sample points
stretch_audio(self, input_audio, stretch_ratio, preserve_pitch) ==
    LET input_length  == Len(input_audio.samples)
        length        == output_length(input_length, stretch_ratio)
        input_indices == linspace(input_length, length)
        fp            == input_audio.samples
    IN  IF input_length = 0 THEN RetRaise("ValueError")
        ELSE RetBlock(astype([k \in 1..length |-> interp_at(input_indices[k], fp)],
                             input_audio.dtype))

\* the blocks stretch_audio is called on
StretchBlocks ==
    { Block(dtype, [k \in 1..Len(samples) |-> Frac(samples[k], 1)]) :
          dtype \in {"int16", "float32"},
          samples \in UNION {[1..k -> SampleInputs] : k \in 0..MaxFrames} }

\* stretch ratios: half, same, 25% longer, double
RatioInputs == {50, 100, 125, 200}

EngineTypes == {"SoundTouch", "Rubber Band Premium"}

EngineCall(args, ret) == [op |-> "stretch_audio", args |-> args, ret |-> ret]

EngineIdle == [op |-> "", args |-> None, ret |-> RetNone]

\* stretch_audio called on an engine of either type
StretchAudio ==
    /\ \E self \in EngineTypes, input_audio \in StretchBlocks,
          stretch_ratio \in RatioInputs, preserve_pitch \in BOOLEAN :
           engine_call' =
               EngineCall([self |-> self, input_audio |-> input_audio,
                           stretch_ratio |-> stretch_ratio,
                           preserve_pitch |-> preserve_pitch],
                          stretch_audio(self, input_audio, stretch_ratio, preserve_pitch))
    /\ UNCHANGED <<hostVars, audio, scanVars, renderVars, pink, jobs, limit,
                   buses, edges, mixer_call, lane, lane_call,
                   mask, stretch, artifacts, alpha, phase>>

StandardWav == "artifacts/stretch_standard.wav"
PremiumWav  == "artifacts/stretch_premium.wav"
StretchLog  == "artifacts/stretch_test.log"

\* main before its first call of test_rubber_band_integration; written holds
\* the files the current call has opened for writing
StretchStart ==
    [pc |-> "select", run |-> 1, rubberband_enabled |-> FALSE, engine |-> None,
     format |-> None, audio_data |-> None, audio_float |-> None,
     stretched_audio |-> None, output_file |-> None, written |-> {},
     ret |-> None, results |-> <<>>, error |-> None]

StretchInit ==
    /\ stretch = StretchStart
    /\ artifacts = [name \in {StandardWav, PremiumWav, StretchLog} |-> None]

\* the script is not run
StretchIdle ==
    /\ stretch = [StretchStart EXCEPT !.pc = "idle"]
    /\ artifacts = [name \in {StandardWav, PremiumWav, StretchLog} |-> None]
    /\ engine_call = EngineIdle

StretchStep(next) ==
    /\ stretch' = next
    /\ UNCHANGED <<hostVars, audio, scanVars, renderVars, pink, jobs, limit,
                   buses, edges, mixer_call, lane, lane_call,
                   mask, engine_call, alpha, phase>>

\* the engine chosen under the flag alone
select_engine_ignoring_flag(rubberband_enabled) == "SoundTouch"

\* if rubberband_enabled: ... TimeStretchEngine("Rubber Band Premium"); the
\* try block raises no ImportError
select_engine(rubberband_enabled) ==
    IF rubberband_enabled THEN "Rubber Band Premium" ELSE "SoundTouch"

StretchSelectEngine ==
    /\ stretch.pc = "select"
    /\ StretchStep([stretch EXCEPT
           !.pc = "check_input",
           !.engine = Some(select_engine(stretch.rubberband_enabled))])
    /\ UNCHANGED artifacts

\* if not os.path.exists(input_file): return False
StretchCheckInput ==
    /\ stretch.pc = "check_input"
    /\ IF input_file = None
       THEN StretchStep([stretch EXCEPT !.pc = "return", !.ret = Some(FALSE)])
       ELSE StretchStep([stretch EXCEPT !.pc = "load"])
    /\ UNCHANGED artifacts

\* wave.open(input_file, 'rb') and the conversion to float
StretchLoad ==
    /\ stretch.pc = "load"
    /\ LET wav == input_file[1]
       IN  IF wav.sampwidth = 2
           THEN StretchStep([stretch EXCEPT
                    !.pc = "apply",
                    !.format = Some([nchannels |-> wav.nchannels,
                                     sampwidth |-> wav.sampwidth,
                                     framerate |-> wav.framerate]),
                    !.audio_data =
                        Some(Block("int16",
                                   [k \in 1..Len(wav.frames[1]) |->
                                       Frac(wav.frames[1][k], 1)])),
                    !.audio_float =
                        Some(Block("float32",
                                   [k \in 1..Len(wav.frames[1]) |->
                                       Frac(wav.frames[1][k], 1)]))])
           ELSE StretchStep([stretch EXCEPT !.pc = "exit",
                                            !.error = Some("ValueError")])
    /\ UNCHANGED artifacts

\* (stretched_float * 32767).astype(np.int16), the float being num/den/32768
stretched_16bit(stretched_float) ==
    Block("int16",
          [k \in 1..Len(stretched_float.samples) |->
              Frac(Trunc(stretched_float.samples[k].num * 32767,
                         stretched_float.samples[k].den * 32768), 1)])

\* engine.stretch_audio(audio_float, 1.25, True) and the conversion to 16 bit
StretchApply ==
    /\ stretch.pc = "apply"
    /\ LET r == stretch_audio(stretch.engine[1], stretch.audio_float[1], 125, TRUE)
       IN  IF r.kind = "raise"
           THEN StretchStep([stretch EXCEPT !.pc = "exit", !.error = Some(r.val[1])])
           ELSE StretchStep([stretch EXCEPT
                    !.pc = "save",
                    !.stretched_audio = Some(stretched_16bit(r.val[1]))])
    /\ UNCHANGED artifacts

\* the output file written whatever the flag
output_name_standard(rubberband_enabled) == StandardWav

\* output_file under the flag
output_name(rubberband_enabled) ==
    IF rubberband_enabled THEN PremiumWav ELSE StandardWav

\* os.makedirs and wave.open(output_file, 'wb') ... writeframes
StretchSave ==
    /\ stretch.pc = "save"
    /\ LET name == output_name(stretch.rubberband_enabled)
           data == stretch.stretched_audio[1].samples
           fmt  == stretch.format[1]
       IN  /\ artifacts' = [artifacts EXCEPT
                  ![name] = Some(Wav(fmt.nchannels, fmt.sampwidth, fmt.framerate,
                                     (2 * Len(data)) \div (fmt.sampwidth * fmt.nchannels),
                                     Some([k \in 1..Len(data) |-> data[k].num])))]
           /\ StretchStep([stretch EXCEPT !.pc = "log",
                                          !.output_file = Some(name),
                                          !.written = @ \cup {name}])

\* the log file, and return True
StretchWriteLog ==
    /\ stretch.pc = "log"
    /\ artifacts' = [artifacts EXCEPT
           ![StretchLog] =
               Some([engine_used |-> stretch.engine[1],
                     rubberband_enabled |-> stretch.rubberband_enabled,
                     output_file |-> stretch.output_file[1],
                     input_length |-> Len(stretch.audio_data[1].samples),
                     output_length |-> Len(stretch.stretched_audio[1].samples)])]
    /\ StretchStep([stretch EXCEPT !.pc = "return", !.ret = Some(TRUE),
                                   !.written = @ \cup {StretchLog}])

\* main: after the call with the flag off, the call with the flag on
StretchSecondRun ==
    /\ stretch.pc = "return"
    /\ stretch.run = 1
    /\ StretchStep([StretchStart EXCEPT
           !.run = 2,
           !.rubberband_enabled = TRUE,
           !.results = <<stretch.ret[1]>>])
    /\ UNCHANGED artifacts

\* main: return success1 and success2
StretchExit ==
    /\ stretch.pc = "return"
    /\ stretch.run = 2
    /\ StretchStep([stretch EXCEPT !.pc = "exit",
                                   !.results = Append(@, stretch.ret[1])])
    /\ UNCHANGED artifacts

-----------------------------------------------------------------------------
(* Validate_Alpha_Setup.py.  The working directory is given by the expected *)
(* files and validation scripts that exist in it, by what is at each        *)
(* implementation path (nothing, a directory or a regular file), and by the *)
(* CMake paths that exist.                                                  *)

expected_files ==
    <<"MixMind_Alpha_Setup.bat", "Build_MixMind_Alpha.bat",
      "Launch_MixMind_Alpha.bat", "CMakeLists.txt", "README.md">>

alpha_dirs ==
    <<"src/vsti", "src/midi", "src/automation", "src/mixer", "src/render",
      "src/ai", "tests">>

validation_scripts ==
    <<"python_test_piano_roll.py", "python_test_automation.py",
      "python_test_mixer.py", "python_test_render.py",
      "python_test_ai_assistant.py">>

cmake_paths ==
    <<"C:/Program Files/CMake/bin/cmake.exe",
      "C:/Program Files (x86)/CMake/bin/cmake.exe">>

Range(s) == {s[k] : k \in 1..Len(s)}

\* what is at the implementation paths: directories everywhere, nothing
\* anywhere, or a regular file at one of them
AlphaDirInputs ==
    { [d \in Range(alpha_dirs) |-> kind] : kind \in {"dir", "absent"} }
    \cup
    { [d \in Range(alpha_dirs) |-> IF d = odd THEN "file" ELSE rest] :
          odd \in Range(alpha_dirs), rest \in {"dir", "absent"} }

\* the working directories main is run in
AlphaInputs ==
    { [files |-> files, dirs |-> dirs, scripts |-> scripts, cmake |-> cmake] :
          files \in SUBSET Range(expected_files),
          dirs \in AlphaDirInputs,
          scripts \in {{}, Range(validation_scripts)},
          cmake \in SUBSET Range(cmake_paths) }

\* main at its start in the working directory cwd; checks lists the checks
\* it has run
AlphaStart(cwd) ==
    [pc |-> "files", cwd |-> cwd, missing_files |-> <<>>, cmake_found |-> FALSE,
     checks |-> <<>>, summary |-> None, ret |-> None, error |-> None]

AlphaInit == \E cwd \in AlphaInputs : alpha = AlphaStart(cwd)

\* the script is not run
AlphaIdle ==
    alpha = [AlphaStart([files |-> {}, dirs |-> [d \in Range(alpha_dirs) |-> "absent"],
                         scripts |-> {}, cmake |-> {}])
                 EXCEPT !.pc = "idle"]

AlphaStep(next) ==
    /\ alpha' = next
    /\ UNCHANGED <<hostVars, audio, scanVars, renderVars, pink, jobs, limit,
                   buses, edges, mixer_call, lane, lane_call,
                   mask, stretch, artifacts, engine_call, phase>>

\* the required files check; with a file missing main returns False
AlphaCheckFiles ==
    /\ alpha.pc = "files"
    /\ LET missing_files ==
               SelectSeq(expected_files, LAMBDA file : file \notin alpha.cwd.files)
       IN  IF missing_files # <<>>
           THEN AlphaStep([alpha EXCEPT !.pc = "exit",
                                        !.missing_files = missing_files,
                                        !.checks = Append(@, "files"),
                                        !.ret = Some(FALSE)])
           ELSE AlphaStep([alpha EXCEPT !.pc = "dirs",
                                        !.checks = Append(@, "files")])

\* the implementation check: os.listdir of every path that exists, which
\* raises NotADirectoryError on a regular file
AlphaCheckDirs ==
    /\ alpha.pc = "dirs"
    /\ IF \E k \in 1..Len(alpha_dirs) : alpha.cwd.dirs[alpha_dirs[k]] = "file"
       THEN AlphaStep([alpha EXCEPT !.pc = "exit",
                                    !.checks = Append(@, "dirs"),
                                    !.error = Some("NotADirectoryError")])
       ELSE AlphaStep([alpha EXCEPT !.pc = "scripts",
                                    !.checks = Append(@, "dirs")])

\* the validation scripts check only prints
AlphaCheckScripts ==
    /\ alpha.pc = "scripts"
    /\ AlphaStep([alpha EXCEPT !.pc = "cmake", !.checks = Append(@, "scripts")])

\* the build requirements check
AlphaCheckCMake ==
    /\ alpha.pc = "cmake"
    /\ AlphaStep([alpha EXCEPT
           !.pc = "summary",
           !.checks = Append(@, "cmake"),
           !.cmake_found = \E k \in 1..Len(cmake_paths) :
                               cmake_paths[k] \in alpha.cwd.cmake])

\* the result: True with no file missing, False otherwise
alpha_result_ready(missing_files, cmake_found) ==
    Len(missing_files) = 0 /\ cmake_found

\* return len(missing_files) == 0
alpha_result(missing_files, cmake_found) == Len(missing_files) = 0

\* the summary and  return len(missing_files) == 0
AlphaSummary ==
    /\ alpha.pc = "summary"
    /\ AlphaStep([alpha EXCEPT
           !.pc = "exit",
           !.summary = Some(IF alpha.missing_files # <<>> \/ ~alpha.cmake_found
                            THEN "NEEDS ATTENTION" ELSE "READY FOR TESTING"),
           !.ret = Some(alpha_result(alpha.missing_files, alpha.cmake_found))])

-----------------------------------------------------------------------------
(* The phase validation scripts python_test_piano_roll.py,                  *)
(* python_test_automation.py, python_test_mixer.py, python_test_render.py   *)
(* and python_test_ai_assistant.py.  The working directory is given by the  *)
(* required paths that exist, by whether the status of a required path can  *)
(* be read, by what artifacts is (a directory, a regular file, or a         *)
(* directory that refuses new files), and by whether standard output can    *)
(* encode the characters outside ASCII that a script prints.                *)

PianoRoll   == "python_test_piano_roll.py"
Automation  == "python_test_automation.py"
Mixer       == "python_test_mixer.py"
Render      == "python_test_render.py"
AIAssistant == "python_test_ai_assistant.py"

PhaseScripts == {PianoRoll, Automation, Mixer, Render, AIAssistant}

required_files(script) ==
    CASE script = PianoRoll ->
             <<"src/midi/MIDIClip.h", "src/midi/MIDIClip.cpp",
               "src/ui/PianoRollEditor.h", "src/ui/PianoRollEditor.cpp",
               "src/ui/CCLaneEditor.h", "src/ui/CCLaneEditor.cpp",
               "src/ui/StepSequencer.h", "src/ui/StepSequencer.cpp",
               "tests/test_piano_roll.cpp">>
      [] script = Automation ->
             <<"src/automation/AutomationData.h", "src/automation/AutomationData.cpp",
               "src/automation/AutomationRecorder.h",
               "src/automation/AutomationRecorder.cpp",
               "src/automation/AutomationEditor.h", "src/automation/AutomationEditor.cpp",
               "src/automation/AutomationEngine.h", "src/automation/AutomationEngine.cpp",
               "tests/test_automation.cpp">>
      [] script = Mixer ->
             <<"src/mixer/MixerTypes.h", "src/mixer/AudioBus.h", "src/mixer/AudioBus.cpp",
               "src/audio/MeterProcessor.h", "src/audio/MeterProcessor.cpp",
               "tests/test_mixer.cpp">>
      [] script = Render ->
             <<"src/render/RenderTypes.h", "src/render/RenderEngine.h",
               "src/render/RenderEngine.cpp", "src/render/AudioFileWriter.cpp",
               "tests/test_render.cpp">>
      [] OTHER ->
             <<"src/ai/AITypes.h", "src/ai/AIAssistant.h", "src/ai/AIAssistant.cpp",
               "src/ai/MixingIntelligence.h", "tests/test_ai_assistant.cpp">>

proof_file(script) ==
    CASE script = PianoRoll -> "artifacts/phase_1_2_piano_roll_proof.txt"
      [] script = Automation -> "artifacts/phase_2_1_automation_proof.txt"
      [] script = Mixer -> "artifacts/phase_3_mixer_proof.txt"
      [] script = Render -> "artifacts/phase_4_render_proof.txt"
      [] OTHER -> "artifacts/phase_5_ai_assistant_proof.txt"

\* the success message of main is printable in ASCII
success_is_ascii(script) == script # AIAssistant

\* the working directories a script is run in: every required path, none, or
\* all but the first exist
PhaseInputs(script) ==
    { [present |-> present, stat_error |-> stat_error, artifacts |-> kind,
       stdout_unicode |-> unicode] :
          present \in { Range(required_files(script)), {},
                        Range(required_files(script)) \ {required_files(script)[1]} },
          stat_error \in BOOLEAN,
          kind \in {"dir", "file", "readonly"},
          unicode \in BOOLEAN }

\* main at its start; checks lists the checks it has called, results what
\* they returned
PhaseStart(script, cwd) ==
    [pc |-> "implementation", script |-> script, cwd |-> cwd, checks |-> <<>>,
     results |-> <<>>, proof |-> None, ret |-> None, error |-> None]

PhaseInit ==
    \E script \in PhaseScripts : \E cwd \in PhaseInputs(script) :
        phase = PhaseStart(script, cwd)

\* no script is run
PhaseIdle ==
    phase = [PhaseStart("", [present |-> {}, stat_error |-> FALSE,
                             artifacts |-> "dir", stdout_unicode |-> TRUE])
                 EXCEPT !.pc = "idle"]

PhaseStep(next) ==
    /\ phase' = next
    /\ UNCHANGED <<hostVars, audio, scanVars, renderVars, pink, jobs, limit,
                   buses, edges, mixer_call, lane, lane_call,
                   mask, stretch, artifacts, engine_call, alpha>>

\* a check was called and returned ok
Checked(name, ok, next_pc) ==
    PhaseStep([phase EXCEPT !.pc = next_pc,
                            !.checks = Append(@, name),
                            !.results = Append(@, ok)])

\* test_..._implementation: every required path exists; Path.exists()
\* raises when the status of a path cannot be read
PhaseImplementation ==
    /\ phase.pc = "implementation"
    /\ IF phase.cwd.stat_error
       THEN PhaseStep([phase EXCEPT !.pc = "exit",
                                    !.checks = Append(@, "implementation"),
                                    !.error = Some("PermissionError")])
       ELSE Checked("implementation",
                    \A k \in 1..Len(required_files(phase.script)) :
                        required_files(phase.script)[k] \in phase.cwd.present,
                    "features")

\* test_feature_coverage: prints and returns True
PhaseFeatures ==
    /\ phase.pc = "features"
    /\ Checked("features", TRUE, "integration")

\* test_integration_points: prints and returns True
PhaseIntegration ==
    /\ phase.pc = "integration"
    /\ Checked("integration", TRUE, "architecture")

\* validate_architecture: prints and returns True
PhaseArchitecture ==
    /\ phase.pc = "architecture"
    /\ Checked("architecture", TRUE, "proof")

\* create_phase_completion_proof: os.makedirs before the try statement, the
\* writes inside it
PhaseProof ==
    /\ phase.pc = "proof"
    /\ CASE phase.cwd.artifacts = "file" ->
                PhaseStep([phase EXCEPT !.pc = "exit",
                                        !.checks = Append(@, "proof"),
                                        !.error = Some("FileExistsError")])
         [] phase.cwd.artifacts = "readonly" ->
                Checked("proof", FALSE, "summary")
         [] OTHER ->
                PhaseStep([phase EXCEPT
                    !.pc = "summary",
                    !.checks = Append(@, "proof"),
                    !.results = Append(@, TRUE),
                    !.proof = Some([name |-> proof_file(phase.script),
                                    implementation_status |-> "COMPLETE"])])

\* a result that leaves the implementation check out
phase_result_lenient(results) == \A k \in 2..Len(results) : results[k]

\* all([implementation_ok, features_ok, integration_ok, architecture_ok, proof_ok])
phase_result(results) == \A k \in 1..Len(results) : results[k]

\* the summary and the result; the success message is printed before
\* return True, and print raises UnicodeEncodeError on a character standard
\* output cannot encode
PhaseSummary ==
    /\ phase.pc = "summary"
    /\ IF phase_result(phase.results)
       THEN IF success_is_ascii(phase.script) \/ phase.cwd.stdout_unicode
            THEN PhaseStep([phase EXCEPT !.pc = "exit", !.ret = Some(TRUE)])
            ELSE PhaseStep([phase EXCEPT !.pc = "exit",
                                         !.error = Some("UnicodeEncodeError")])
       ELSE PhaseStep([phase EXCEPT !.pc = "exit", !.ret = Some(FALSE)])

\* the stand-alone scripts are not run
ToolsIdle ==
    /\ MaskIdle
    /\ StretchIdle
    /\ AlphaIdle
    /\ PhaseIdle

-----------------------------------------------------------------------------
(* Specifications *)

\* the engines modelled from the specification are not running
EnginesIdle == JobsIdle /\ GraphInit /\ LaneInit /\ ToolsIdle

\* the host after construction, called by one client
Init == HostInit /\ audio = AudioIdle /\ ScannerIdle /\ RenderIdle /\ PinkIdle /\ EnginesIdle

Next ==
    \/ CreateAudioSession
    \/ LoadRealPlugin
    \/ ActivatePlugin
    \/ SetParameter
    \/ GetParameter
    \/ ProcessAudioBlock
    \/ SaveSessionState

Spec == Init /\ [][Next]_vars

\* the host loading, activating, setting and processing, without persistence
InitChain == Init

NextChain ==
    \/ CreateAudioSession
    \/ LoadRealPlugin
    \/ ActivatePlugin
    \/ SetParameter
    \/ ProcessAudioBlock
    \/ RunChain

SpecChain == InitChain /\ [][NextChain]_vars

\* the host opening sessions at either rate and loading plugins
InitSession == Init

NextSession ==
    \/ CreateSessionAtRate
    \/ LoadRealPlugin
    \/ ActivatePlugin

SpecSession == InitSession /\ [][NextSession]_vars

\* the loop of generate_pink_noise around the indices of StartIndices
InitMask ==
    /\ HostInit /\ audio = AudioIdle /\ ScannerIdle /\ RenderIdle /\ PinkIdle
    /\ JobsIdle /\ GraphInit /\ LaneInit
    /\ MaskInit
    /\ StretchIdle
    /\ AlphaIdle
    /\ PhaseIdle

NextMask == MaskRound

SpecMask == InitMask /\ [][NextMask]_vars

\* calls of stretch_audio on an engine
InitEngine == Init

NextEngine == StretchAudio

SpecEngine == InitEngine /\ [][NextEngine]_vars

\* the time stretch script run once on any of the input files
InitStretch ==
    /\ HostInit /\ audio = AudioIdle /\ ScannerIdle /\ PinkIdle
    /\ render = [RenderStart EXCEPT !.pc = "exit", !.status = "idle"]
    /\ input_file \in InputFiles /\ output_file = None
    /\ JobsIdle /\ GraphInit /\ LaneInit
    /\ MaskIdle
    /\ StretchInit /\ engine_call = EngineIdle
    /\ AlphaIdle
    /\ PhaseIdle

NextStretch ==
    \/ StretchSelectEngine
    \/ StretchCheckInput
    \/ StretchLoad
    \/ StretchApply
    \/ StretchSave
    \/ StretchWriteLog
    \/ StretchSecondRun
    \/ StretchExit

SpecStretch == InitStretch /\ [][NextStretch]_vars

\* Validate_Alpha_Setup.main run once in any of the working directories
InitAlpha ==
    /\ HostInit /\ audio = AudioIdle /\ ScannerIdle /\ RenderIdle /\ PinkIdle
    /\ JobsIdle /\ GraphInit /\ LaneInit
    /\ MaskIdle
    /\ StretchIdle
    /\ AlphaInit
    /\ PhaseIdle

NextAlpha ==
    \/ AlphaCheckFiles
    \/ AlphaCheckDirs
    \/ AlphaCheckScripts
    \/ AlphaCheckCMake
    \/ AlphaSummary

SpecAlpha == InitAlpha /\ [][NextAlpha]_vars

\* the main of one phase validation script run once in any of the working
\* directories
InitPhase ==
    /\ HostInit /\ audio = AudioIdle /\ ScannerIdle /\ RenderIdle /\ PinkIdle
    /\ JobsIdle /\ GraphInit /\ LaneInit
    /\ MaskIdle
    /\ StretchIdle
    /\ AlphaIdle
    /\ PhaseInit

NextPhase ==
    \/ PhaseImplementation
    \/ PhaseFeatures
    \/ PhaseIntegration
    \/ PhaseArchitecture
    \/ PhaseProof
    \/ PhaseSummary

SpecPhase == InitPhase /\ [][NextPhase]_vars

\* the host after the set-up of the integration test (a session and one
\* loaded plugin), with a control thread and an audio thread
InitRT ==
    /\ \E plugin_path \in BundlePaths :
           LET session == create_audio_session(NewHost, "RealVST3Session", 44100, 512)
               r == load_real_plugin(session.self, plugin_path)
           IN  /\ loaded_plugins = r.self.loaded_plugins
               /\ plugin_keys = r.self.plugin_keys
               /\ active_session = r.self.active_session
               /\ call = Call("load_real_plugin", r.ret)
               /\ session_file = r.file
    /\ audio = AudioIdle
    /\ ScannerIdle
    /\ RenderIdle
    /\ PinkIdle
    /\ EnginesIdle

NextRT ==
    \/ ActivatePlugin
    \/ SetParameter
    \/ AudioCall
    \/ AudioCheckLoaded
    \/ AudioCheckActive
    \/ AudioReadGain
    \/ AudioReadMaster
    \/ AudioScale
    \/ AudioReturn

SpecRT == InitRT /\ [][NextRT]_vars

\* a scanner after construction, on any of the disks
InitScan == HostInit /\ audio = AudioIdle /\ ScannerInit /\ RenderIdle /\ PinkIdle /\ EnginesIdle

NextScan ==
    \/ ScanSystemPlugins
    \/ FindSpanPlugin
    \/ FindTdrNovaPlugin

SpecScan == InitScan /\ [][NextScan]_vars

\* one run of the render script, on any of the input files
InitRender == HostInit /\ audio = AudioIdle /\ ScannerIdle /\ RenderInit /\ PinkIdle /\ EnginesIdle

NextRender ==
    \/ RenderMakedirs
    \/ RenderCheckInput
    \/ RenderRead
    \/ RenderProcess
    \/ RenderDummy
    \/ RenderOpenOutput
    \/ RenderWrite
    \/ RenderReturn

SpecRender == InitRender /\ [][NextRender]_vars

\* the pink noise script and the render script, each run once, in any order:
\* the render finds the input file when the pink noise script has saved it
InitFiles ==
    /\ HostInit /\ audio = AudioIdle /\ ScannerIdle
    /\ PinkInit
    /\ render = RenderStart /\ input_file = None /\ output_file = None
    /\ EnginesIdle

NextFiles ==
    \/ PinkSample
    \/ PinkNormalize
    \/ PinkSave
    \/ RenderMakedirs
    \/ RenderCheckInput
    \/ RenderRead
    \/ RenderProcess
    \/ RenderDummy
    \/ RenderOpenOutput
    \/ RenderWrite
    \/ RenderReturn

SpecFiles == InitFiles /\ [][NextFiles]_vars

\* the Render Engine's job queue with its callers and workers
InitJobs ==
    /\ HostInit /\ audio = AudioIdle /\ ScannerIdle /\ RenderIdle /\ PinkIdle
    /\ JobsInit
    /\ GraphInit /\ LaneInit /\ ToolsIdle

NextJobs ==
    \/ SubmitJob
    \/ StartJob
    \/ RenderChunk
    \/ CancelJob
    \/ ObserveCancel
    \/ FailJob
    \/ CompleteJob

SpecJobs == InitJobs /\ [][NextJobs]_vars

\* the bus graph of a new session and the routing calls made on it
InitGraph == Init

NextGraph ==
    \/ CreateBus
    \/ Connect

SpecGraph == InitGraph /\ [][NextGraph]_vars

\* the bus graph with its routing, solo and mute calls
InitSolo == Init

NextSolo ==
    \/ CreateBus
    \/ Connect
    \/ SetSolo
    \/ SetMute

SpecSolo == InitSolo /\ [][NextSolo]_vars

\* the bus graph with its routing and the effects loaded into its buses
InitPDC == Init

NextPDC ==
    \/ CreateBus
    \/ Connect
    \/ InsertEffect

SpecPDC == InitPDC /\ [][NextPDC]_vars

\* one automation lane and its editing operations
InitLane == Init

NextLane ==
    \/ Draw
    \/ Erase
    \/ Trim
    \/ Normalize
    \/ Invert
    \/ Smooth
    \/ Quantize
    \/ CopyPaste

SpecLane == InitLane /\ [][NextLane]_vars

-----------------------------------------------------------------------------
(* Properties of the host *)

LoadedIds == DOMAIN loaded_plugins

ParamNames(plugin_id) == DOMAIN loaded_plugins[plugin_id].parameters

ParamOf(self, plugin_id, param_name) ==
    self.loaded_plugins[plugin_id].parameters[param_name]

\* values a caller may pass to set_parameter: below, on, inside and above the range
ProbeValues == {-20, 0, 25, 100, 130}

\* test blocks of every length up to the bound
ProbeBlocks == {TestAudio(n) : n \in 0..MaxBlockLen}

\* C1: every parameter of every loaded plugin has range_min <= value <= range_max
C1_ValueInRange ==
    \A plugin_id \in LoadedIds : \A param_name \in ParamNames(plugin_id) :
        LET param == ParamOf(Self, plugin_id, param_name)
        IN  param.range[1] <= param.value /\ param.value <= param.range[2]

\* a set_parameter has left one parameter on its upper bound and one on its
\* lower bound (no parameter of these plugins is created on a bound)
C1_Witness ==
    /\ call = Call("set_parameter", RetBool(TRUE))
    /\ \E plugin_id \in LoadedIds : \E param_name \in ParamNames(plugin_id) :
           ParamOf(Self, plugin_id, param_name).value
               = ParamOf(Self, plugin_id, param_name).range[2]
    /\ \E plugin_id \in LoadedIds : \E param_name \in ParamNames(plugin_id) :
           ParamOf(Self, plugin_id, param_name).value
               = ParamOf(Self, plugin_id, param_name).range[1]

\* a path that does not exist, or is not a directory named *.vst3
NotABundle(path) == path.kind = "absent" \/ path.kind # "dir" \/ path.suffix # VST3

C3_ActiveOnlyByActivate ==
    /\ [](\A handle \in HandleInputs : \A plugin_id \in LoadedIds :
            LET r == activate_plugin(Self, handle)
            IN  /\ DOMAIN r.self.loaded_plugins = LoadedIds
                /\ r.self.loaded_plugins[plugin_id].active =
                       (loaded_plugins[plugin_id].active \/ plugin_id = handle))
    /\ [][/\ \A plugin_id \in DOMAIN loaded_plugins' \ DOMAIN loaded_plugins :
                /\ call' = Call("load_real_plugin", RetId(plugin_id))
                /\ loaded_plugins'[plugin_id].loaded
                /\ ~loaded_plugins'[plugin_id].active
          /\ \A plugin_id \in DOMAIN loaded_plugins :
                /\ plugin_id \in DOMAIN loaded_plugins'
                /\ loaded_plugins'[plugin_id].active # loaded_plugins[plugin_id].active
                     => /\ call' = Call("activate_plugin", RetBool(TRUE))
                        /\ loaded_plugins'[plugin_id].active
                        /\ \A other \in DOMAIN loaded_plugins \ {plugin_id} :
                               loaded_plugins'[other].active = loaded_plugins[other].active
         ]_vars

\* an activate_plugin has made one plugin active beside one that is not
C3_Witness ==
    /\ call = Call("activate_plugin", RetBool(TRUE))
    /\ \E a, b \in LoadedIds : loaded_plugins[a].active /\ ~loaded_plugins[b].active

\* C4: a successful load returns an id that was no key of loaded_plugins, adds
\* exactly one entry, under that id, and leaves every earlier entry as it was
C4_HandlesUnique ==
    \A path \in Paths :
        LET r == load_real_plugin(Self, path)
        IN  r.ret.kind = "id" =>
               LET plugin_id == r.ret.val[1]
               IN  /\ plugin_id \notin LoadedIds
                   /\ DOMAIN r.self.loaded_plugins = LoadedIds \cup {plugin_id}
                   /\ r.self.loaded_plugins[plugin_id].id = plugin_id
                   /\ \A k \in LoadedIds : r.self.loaded_plugins[k] = loaded_plugins[k]

\* two bundles whose names differ only in case are loaded, each under its own id
C4_Witness ==
    /\ call.op = "load_real_plugin" /\ call.ret.kind = "id"
    /\ \E a, b \in LoadedIds :
           /\ a # b
           /\ loaded_plugins[a].name # loaded_plugins[b].name
           /\ Lower(loaded_plugins[a].name) = Lower(loaded_plugins[b].name)

\* C5: for a loaded plugin and a parameter it owns, set_parameter returns True
\* and a get_parameter right after it returns the value when it is inside the
\* range and the nearest bound of the range when it is not; a second
\* set_parameter with the same value changes nothing
C5_SetThenGet ==
    \A plugin_id \in LoadedIds : \A param_name \in ParamNames(plugin_id) :
        \A value \in ProbeValues :
            LET range == ParamOf(Self, plugin_id, param_name).range
                set   == set_parameter(Self, plugin_id, param_name, value)
                got   == get_parameter(set.self, plugin_id, param_name)
                again == set_parameter(set.self, plugin_id, param_name, value)
            IN  /\ set.ret = RetBool(TRUE)
                /\ (range[1] <= value /\ value <= range[2]) => got.ret = RetValue(value)
                /\ value < range[1] => got.ret = RetValue(range[1])
                /\ value > range[2] => got.ret = RetValue(range[2])
                /\ again.self = set.self

\* get_parameter has returned 0.25, a value only a set_parameter can have stored
C5_Witness ==
    /\ call = Call("get_parameter", RetValue(25))
    /\ \E plugin_id \in LoadedIds : \E param_name \in ParamNames(plugin_id) :
           ParamOf(Self, plugin_id, param_name).value = 25

\* C7: process_audio_block with the handle of a loaded plugin, active or not,
\* returns a block as long as its input, and so does a chain through all
\* loaded plugins in load order
C7_LengthPreserved ==
    \A audio_data \in ProbeBlocks :
        /\ \A plugin_id \in LoadedIds :
               LET r == process_audio_block(Self, plugin_id, audio_data)
               IN  r.ret.kind = "block" /\ Len(r.ret.val[1]) = Len(audio_data)
        /\ Len(ProcessChain(Self, plugin_keys, audio_data)) = Len(audio_data)

\* an active plugin has returned a scaled block of two or more samples while
\* another loaded plugin is not active
C7_Witness ==
    /\ call.op = "process_audio_block" /\ call.ret.kind = "block"
    /\ Len(call.ret.val[1]) >= 2
    /\ call.ret.val[1] \notin BlockInputs
    /\ \E a, b \in LoadedIds : loaded_plugins[a].active /\ ~loaded_plugins[b].active

\* C9: save_session_state never changes the host; without a session it returns
\* False and writes nothing; the document of a successful save reads back as
\* the plugins (each under its id, with every parameter's value and range) and
\* the session (name, sample rate, buffer size) the host holds
C9_SaveRoundTrip ==
    /\ \A now \in Timestamps, io \in IoOutcomes :
           LET r == save_session_state(Self, "real_vst3_session.json", now, io)
           IN  /\ r.self = Self
               /\ active_session = None => r.ret = RetBool(FALSE) /\ r.file = None
    /\ call = Call("save_session_state", RetBool(TRUE)) =>
           /\ session_file # None
           /\ DOMAIN session_file[1].plugins = LoadedIds
           /\ json_load(session_file[1]).plugins = loaded_plugins
           /\ json_load(session_file[1]).session = active_session[1]

\* a session with two plugins, one parameter set to 0.25, has been saved
C9_Witness ==
    /\ call = Call("save_session_state", RetBool(TRUE))
    /\ Cardinality(LoadedIds) >= 2
    /\ \E plugin_id \in LoadedIds : \E param_name \in ParamNames(plugin_id) :
           ParamOf(Self, plugin_id, param_name).value = 25

-----------------------------------------------------------------------------
(* Properties of the audio thread *)

\* the parameters of the plugin the audio thread is processing
AudioParameters == loaded_plugins[audio.plugin_id].parameters

\* the first n samples of a block
Prefix(block, n) == SubSeq(block, 1, n)

\* C6: whatever set_parameter calls the control thread interleaves with a
\* running block, every sample of the block is scaled by the one gain the
\* block read before its first sample, and that gain is the value the
\* parameter held when the block read it (so a later block uses the new value)
C6_OneGainPerBlock ==
    /\ [](audio.pc \in {"scale", "return"} =>
             audio.processed_data =
                 ApplyGain(Prefix(audio.audio_data, Len(audio.processed_data)),
                           audio.gain[1]))
    /\ [](audio.pc = "idle" /\ audio.gain # None =>
             audio.ret = RetBlock(ApplyGain(audio.audio_data, audio.gain[1])))
    /\ [][/\ (/\ audio.pc = "read_gain" /\ audio'.pc # "read_gain"
              /\ "gain" \in DOMAIN AudioParameters)
               => audio'.gain = Some(AudioParameters["gain"].value)
          /\ (/\ audio.pc = "read_master" /\ audio'.pc # "read_master"
              /\ "master_volume" \in DOMAIN AudioParameters)
               => audio'.gain = Some(AudioParameters["master_volume"].value)
          /\ audio.pc \in {"scale", "return"} => audio'.gain = audio.gain
         ]_vars

\* a set_parameter has changed the gain parameter while the block is between
\* two of its samples
C6_Witness ==
    /\ audio.pc = "scale"
    /\ Len(audio.processed_data) >= 1
    /\ Len(audio.processed_data) < Len(audio.audio_data)
    /\ call = Call("set_parameter", RetBool(TRUE))
    /\ audio.gain # Some(SelectGain(AudioParameters))

-----------------------------------------------------------------------------
(* Properties of the scanner *)

\* the plugin infos the most recent scanner call handed to its caller
Exposed ==
    IF found.ret.kind = "list"
    THEN {found.ret.val[1][i] : i \in 1..Len(found.ret.val[1])}
    ELSE IF found.ret.kind = "info" THEN {found.ret.val[1]}
    ELSE {}

\* C8: every plugin info returned by scan_system_plugins, find_span_plugin or
\* find_tdr_nova_plugin has a path that is a directory with the suffix .vst3
C8_ExposedAreBundles ==
    \A info \in Exposed : scanner_is_valid_vst3_bundle(disk, info.path)

-----------------------------------------------------------------------------
(* Properties of the render script *)

\* C10: while the render has not completed there is no file at the output path
C10_NoPartialOutput ==
    render.status \in {"running", "failed"} => output_file = None

-----------------------------------------------------------------------------
(* Properties of the written files *)

\* C11: the file saved by the pink noise script for d seconds at rate r is
\* mono, 16 bit, and holds d * r frames in d * r * 2 bytes; the dummy render
\* holds 5 * 44100 frames in 441000 bytes
C11_FrameCount ==
    /\ (pink.pc = "exit" /\ pink.error = None) =>
           /\ input_file # None
           /\ input_file[1].nchannels = 1 /\ input_file[1].sampwidth = 2
           /\ input_file[1].nframes = pink.duration_seconds * pink.sample_rate
           /\ Len(input_file[1].frames[1]) = pink.duration_seconds * pink.sample_rate
           /\ DataBytes(input_file[1]) = pink.duration_seconds * pink.sample_rate * 2
    /\ (render.status = "completed" /\ render.samples[1].frames = None) =>
           /\ output_file[1].nchannels = 1 /\ output_file[1].sampwidth = 2
           /\ output_file[1].framerate = 44100
           /\ output_file[1].nframes = 5 * 44100
           /\ DataBytes(output_file[1]) = 441000

\* the dummy render has completed and, after it, the pink noise script has
\* saved a file of more than one second
C11_Witness ==
    /\ render.status = "completed" /\ render.samples[1].frames = None
    /\ pink.pc = "exit" /\ pink.error = None
    /\ pink.duration_seconds >= 2
    /\ input_file # None /\ input_file[1].nframes >= 2

-----------------------------------------------------------------------------
(* Properties of the Render Engine's job queue *)

JobStatuses == {"queued", "running", "completed", "cancelled", "failed"}

\* C12: a job enters the queue as queued, and its status changes only from
\* queued to running and from running to completed, cancelled or failed; no
\* job leaves the queue
C12_JobStateMachine ==
    /\ [](\A j \in DOMAIN jobs : jobs[j].status \in JobStatuses)
    /\ [][\A j \in DOMAIN jobs' :
             IF j \notin DOMAIN jobs THEN jobs'[j].status = "queued"
             ELSE \/ jobs'[j].status = jobs[j].status
                  \/ jobs[j].status = "queued" /\ jobs'[j].status = "running"
                  \/ /\ jobs[j].status = "running"
                     /\ jobs'[j].status \in {"completed", "cancelled", "failed"}
         ]_vars
    /\ [][DOMAIN jobs \subseteq DOMAIN jobs']_vars

\* one job has completed and another, asked to cancel while it was queued,
\* has been cancelled before it rendered a chunk
C12_Witness ==
    \E j, k \in DOMAIN jobs :
        /\ jobs[j].status = "completed"
        /\ jobs[k].status = "cancelled" /\ jobs[k].progress = 0

\* C18: the number of running jobs never exceeds the concurrency limit, and a
\* queued job becomes running only in a step that starts with fewer running
\* jobs than the limit
C18_RunningWithinLimit ==
    /\ [](Cardinality(RunningJobs(jobs)) <= limit)
    /\ [][\A j \in DOMAIN jobs :
             (jobs[j].status = "queued" /\ jobs'[j].status = "running")
                 => Cardinality(RunningJobs(jobs)) < limit
         ]_vars

\* every slot is taken and a queued job waits
C18_Witness ==
    /\ Cardinality(RunningJobs(jobs)) = limit
    /\ \E j \in DOMAIN jobs : jobs[j].status = "queued"
    /\ \E j \in DOMAIN jobs : jobs[j].status = "running" /\ jobs[j].progress > 0

-----------------------------------------------------------------------------
(* Properties of the bus graph *)

\* the sequences of distinct bus ids
SimplePaths ==
    { p \in UNION {[1..k -> 1..MaxBuses] : k \in 1..MaxBuses} :
          \A i, j \in 1..Len(p) : i < j => p[i] # p[j] }

\* p is a path along edge_set
IsPath(edge_set, p) == \A i \in 1..(Len(p) - 1) : <<p[i], p[i + 1]>> \in edge_set

\* there is a path of one edge or more from a back to a
HasCycle(edge_set) ==
    \E p \in SimplePaths : IsPath(edge_set, p) /\ <<p[Len(p)], p[1]>> \in edge_set

\* C13: the bus graph has no cycle; a connect whose edge would close a cycle
\* (fromBus = toBus included) is rejected; a rejected connect leaves buses and
\* edges as they were
C13_GraphAcyclic ==
    /\ ~HasCycle(edges)
    /\ \A fromBus \in BusInputs, toBus \in BusInputs :
           LET r == connect(TheGraph, fromBus, toBus)
           IN  /\ HasCycle(edges \cup {<<fromBus, toBus>>}) => r.ret = "rejected"
               /\ r.ret = "rejected" => r.graph = TheGraph
    /\ mixer_call = Call("connect", "ok") => edges # {}

\* a connect was rejected whose edge would have closed a cycle through three
\* buses
C13_Witness ==
    /\ mixer_call = Call("connect", "rejected")
    /\ \E a, b, c \in BusIds(TheGraph) :
           /\ a # b /\ b # c /\ a # c
           /\ {<<a, b>>, <<b, c>>} \subseteq edges
           /\ <<a, c>> \notin edges

\* the pairs <<a, b>> with a path of one edge or more from a to b
PathPairs(edge_set) ==
    { <<p[1], p[Len(p)]>> : p \in {q \in SimplePaths : Len(q) >= 2 /\ IsPath(edge_set, q)} }

\* C14: while a bus is soloed, a bus that is heard is not muted and is soloed
\* or joined to a soloed bus by a path in one direction or the other; with no
\* bus soloed a bus is heard exactly when it is not muted; setSolo never
\* changes a mute flag
C14_SoloInPlace ==
    LET paths == PathPairs(edges)
        solos == {s \in BusIds(TheGraph) : buses[s].solo}
    IN  /\ \A b \in BusIds(TheGraph) :
               /\ (solos # {} /\ audible(TheGraph, b)) =>
                      /\ ~buses[b].mute
                      /\ \/ buses[b].solo
                         \/ \E s \in solos : <<b, s>> \in paths \/ <<s, b>> \in paths
               /\ solos = {} => (audible(TheGraph, b) <=> ~buses[b].mute)
        /\ \A busId \in BusInputs, flag \in BOOLEAN :
               LET r == setSolo(TheGraph, busId, flag)
               IN  /\ DOMAIN r.graph.buses = DOMAIN buses
                   /\ \A b \in DOMAIN buses : r.graph.buses[b].mute = buses[b].mute
                   /\ r.graph.edges = edges

\* a bus is soloed; a bus it feeds is heard, a muted bus that feeds it is not,
\* and a bus that is not muted and not joined to it is not heard either
C14_Witness ==
    /\ mixer_call = Call("setSolo", "ok")
    /\ \E s, a, c \in BusIds(TheGraph) :
           /\ buses[s].solo /\ ~buses[a].solo /\ ~buses[c].solo
           /\ <<s, a>> \in edges /\ audible(TheGraph, a)
           /\ ~buses[c].mute /\ ~audible(TheGraph, c)

\* the signal paths into the mix of a bus: the bus alone stands for its own
\* input, a longer path comes in over its last connection
SignalPaths(edge_set) == {p \in SimplePaths : IsPath(edge_set, p)}

\* the plugin latency met on a path before the bus it ends in
PathLatency(p) == SumSeq([i \in 1..Len(p) |-> buses[p[i]].latency], Len(p) - 1)

\* the compensation met on a path: on the input it starts from and on each of
\* its connections
PathCompensation(p) ==
    inputCompensation(TheGraph, p[1])
      + SumSeq([i \in 1..Len(p) |->
                   IF i < Len(p) THEN compensation(TheGraph, p[i], p[i + 1]) ELSE 0],
               Len(p) - 1)

\* C15: of the paths into a bus, the one with the greatest plugin latency L2
\* gets no compensation and a path with latency L1 < L2 gets exactly L2 - L1,
\* so latency plus compensation is the same on all paths into the bus; with a
\* group of latency 64 connected to Master, Master's own input is delayed 64
C15_PathsAligned ==
    LET paths == SignalPaths(edges)
        Last(p) == p[Len(p)]
    IN  /\ \A a \in paths, b \in paths :
               (/\ Last(a) = Last(b)
                /\ \A c \in paths : Last(c) = Last(b) => PathLatency(c) <= PathLatency(b))
               => /\ PathCompensation(b) = 0
                  /\ PathCompensation(a) = PathLatency(b) - PathLatency(a)
                  /\ PathLatency(a) + PathCompensation(a)
                       = PathLatency(b) + PathCompensation(b)
        /\ \A e \in edges : compensation(TheGraph, e[1], e[2]) >= 0
        /\ (/\ Len(buses) = 2 /\ edges = {<<2, 1>>}
            /\ buses[2].latency = GainLatency /\ buses[1].latency = 0)
           => inputCompensation(TheGraph, 1) = GainLatency

\* two buses feed a third, the one with latency 32 and the other with 64: the
\* first connection is delayed 32 samples and the second is not delayed
C15_Witness ==
    /\ mixer_call = Call("insertEffect", "ok")
    /\ \E a, b, c \in BusIds(TheGraph) :
           /\ <<a, c>> \in edges /\ <<b, c>> \in edges
           /\ Arrival(TheGraph, a) = GainLatency \div 2
           /\ Arrival(TheGraph, b) = GainLatency
           /\ compensation(TheGraph, a, c) = GainLatency \div 2
           /\ compensation(TheGraph, b, c) = 0

\* the point times of l are strictly increasing
StrictlyIncreasing(l) == \A i \in 1..(Len(l) - 1) : l[i].time < l[i + 1].time

\* C16: in every reachable state the point times of the lane are strictly
\* increasing
C16_TimesIncreasing == StrictlyIncreasing(lane)

\* C17: quantizing the lane to grid size g gives a lane of as many points,
\* each at a time that is a multiple of g, for every lane and every g > 0;
\* the lane a quantize has left has every point on the grid of that call
C17_QuantizeOnGrid ==
    /\ \A g \in GridInputs :
           LET q == quantize(lane, g)
           IN  /\ Len(q) = Len(lane)
               /\ \A i \in DOMAIN q : q[i].time % g = 0
    /\ lane_call.op = "quantize" =>
           \A i \in DOMAIN lane : lane[i].time % lane_call.g = 0

\* a quantize has left two points at one grid time: they were closer together
\* than the grid size
C17_Witness ==
    /\ lane_call.op = "quantize"
    /\ lane_call.g > 1
    /\ \E i \in 1..(Len(lane) - 1) : lane[i].time = lane[i + 1].time

\* parameter names of the three kinds of plugin, and one no plugin owns
ProbeNames == {"gain", "master_volume", "master_gain", "no_such_parameter"}

\* C19: activate_plugin and set_parameter of a handle that is not loaded
\* return False, get_parameter and process_audio_block of it return None;
\* set_parameter and get_parameter of a loaded plugin with a parameter name
\* it does not own return False and None; each of these calls leaves the host,
\* loaded_plugins and active_session included, as it was
C19_UnknownFailsClean ==
    /\ \A plugin_id \in HandleInputs \ LoadedIds :
          /\ activate_plugin(Self, plugin_id) = Result(Self, RetBool(FALSE))
          /\ \A param_name \in ProbeNames :
                /\ get_parameter(Self, plugin_id, param_name) = Result(Self, RetNone)
                /\ \A value \in ValueInputs :
                      set_parameter(Self, plugin_id, param_name, value)
                          = Result(Self, RetBool(FALSE))
          /\ \A audio_data \in BlockInputs :
                process_audio_block(Self, plugin_id, audio_data) = Result(Self, RetNone)
    /\ \A plugin_id \in LoadedIds : \A param_name \in ProbeNames \ ParamNames(plugin_id) :
          /\ get_parameter(Self, plugin_id, param_name) = Result(Self, RetNone)
          /\ \A value \in ValueInputs :
                set_parameter(Self, plugin_id, param_name, value)
                    = Result(Self, RetBool(FALSE))

\* a get_parameter has returned None with a session open and an active plugin
\* loaded that does not own every probed name
C19_Witness ==
    /\ call = Call("get_parameter", RetNone)
    /\ active_session # None
    /\ \E plugin_id \in LoadedIds :
          /\ loaded_plugins[plugin_id].active
          /\ ProbeNames \ ParamNames(plugin_id) # {}
          /\ ProbeNames \cap ParamNames(plugin_id) # {}

\* C20: set_parameter changes at most the value of the named parameter of the
\* named plugin: the ranges and display names, the other parameters of that
\* plugin, its other fields (active included), every other loaded plugin, the
\* order of the handles and the session are as they were
C20_SetParameterFrame ==
    \A plugin_id \in HandleInputs : \A param_name \in ParamInputs :
        \A value \in ValueInputs :
            LET r == set_parameter(Self, plugin_id, param_name, value)
            IN  /\ r.self.active_session = active_session
                /\ r.self.plugin_keys = plugin_keys
                /\ DOMAIN r.self.loaded_plugins = LoadedIds
                /\ \A other \in LoadedIds \ {plugin_id} :
                      r.self.loaded_plugins[other] = loaded_plugins[other]
                /\ plugin_id \in LoadedIds =>
                      LET before == loaded_plugins[plugin_id]
                          after  == r.self.loaded_plugins[plugin_id]
                      IN  /\ [after EXCEPT !.parameters = before.parameters] = before
                          /\ DOMAIN after.parameters = DOMAIN before.parameters
                          /\ \A p \in DOMAIN before.parameters :
                                /\ after.parameters[p].range = before.parameters[p].range
                                /\ after.parameters[p].name = before.parameters[p].name
                                /\ p # param_name =>
                                      after.parameters[p].value = before.parameters[p].value

\* a set_parameter has moved the gain of one plugin while a second plugin that
\* owns a gain too still has the gain it was created with
C20_Witness ==
    /\ call = Call("set_parameter", RetBool(TRUE))
    /\ \E a, b \in LoadedIds :
          /\ a # b
          /\ "gain" \in ParamNames(a) /\ "gain" \in ParamNames(b)
          /\ ParamOf(Self, a, "gain").value
                # create_mock_parameters(loaded_plugins[a].name)["gain"].value
          /\ ParamOf(Self, b, "gain").value
                = create_mock_parameters(loaded_plugins[b].name)["gain"].value

\* the loaded plugins that are active, in load order
ActiveKeys == SelectSeq(plugin_keys, LAMBDA k : loaded_plugins[k].active)

\* C21: process_audio_block of a loaded plugin that is not active returns the
\* block it was given, and a chain through the loaded plugins gives what the
\* chain through the active ones alone gives
C21_InactiveBypassed ==
    \A audio_data \in ProbeBlocks :
        /\ \A plugin_id \in LoadedIds :
              ~loaded_plugins[plugin_id].active =>
                  process_audio_block(Self, plugin_id, audio_data)
                      = Result(Self, RetBlock(audio_data))
        /\ ProcessChain(Self, plugin_keys, audio_data)
              = ProcessChain(Self, ActiveKeys, audio_data)

\* process_audio_block has given a block of two samples or more back as it
\* was (an active plugin returns it in hundredths), with a plugin that is not
\* active loaded before an active one
C21_Witness ==
    /\ call.op = "process_audio_block" /\ call.ret.kind = "block"
    /\ call.ret.val[1] \in BlockInputs
    /\ Len(call.ret.val[1]) >= 2
    /\ Len(plugin_keys) >= 2
    /\ ~loaded_plugins[plugin_keys[1]].active
    /\ loaded_plugins[plugin_keys[2]].active

\* the gain of a parameter table in the order of the claim: master_volume,
\* else master_gain, else gain, else 1.0
ClaimedGain(parameters) ==
    IF "master_volume" \in DOMAIN parameters THEN parameters["master_volume"].value
    ELSE IF "master_gain" \in DOMAIN parameters THEN parameters["master_gain"].value
    ELSE IF "gain" \in DOMAIN parameters THEN parameters["gain"].value
    ELSE 100

\* the parameter tables of the three kinds of plugin
MockTables ==
    { create_mock_parameters(SerumName), create_mock_parameters(ArcadeName),
      create_mock_parameters(<<"E", "Q">>) }

\* tables that own none, one, two or three of the gain parameters
ProbeTables ==
    MockTables \cup {a @@ b : a \in MockTables, b \in MockTables}
               \cup {a @@ b @@ c : a \in MockTables, b \in MockTables, c \in MockTables}
               \cup {<<>>}

\* C22: for an active plugin process_audio_block returns output[i] =
\* input[i] * g with g the value of master_volume, else of master_gain, else
\* of gain, else 1.0; g lies in 0..1, so no sample grows in magnitude
C22_GainApplied ==
    /\ \A parameters \in ProbeTables : SelectGain(parameters) = ClaimedGain(parameters)
    /\ \A plugin_id \in LoadedIds : \A audio_data \in ProbeBlocks :
          loaded_plugins[plugin_id].active =>
              LET g == ClaimedGain(loaded_plugins[plugin_id].parameters)
                  r == process_audio_block(Self, plugin_id, audio_data)
              IN  /\ 0 <= g /\ g <= 100
                  /\ r.ret.kind = "block"
                  /\ Len(r.ret.val[1]) = Len(audio_data)
                  /\ \A i \in DOMAIN audio_data :
                        /\ r.ret.val[1][i] = audio_data[i] * g
                        /\ Abs(r.ret.val[1][i]) <= Abs(audio_data[i]) * 100

\* an active plugin has scaled the full test block by the gain 0.25 that a
\* set_parameter had stored
C22_Witness ==
    /\ call.op = "process_audio_block" /\ call.ret.kind = "block"
    /\ call.ret.val[1] = ApplyGain(TestAudio(MaxBlockLen), 25)
    /\ \E plugin_id \in LoadedIds :
          /\ loaded_plugins[plugin_id].active
          /\ ClaimedGain(loaded_plugins[plugin_id].parameters) = 25

\* C23: process_audio_block returns the host it was given, so a second call
\* with the same block returns the same block; no step of the audio thread
\* changes loaded_plugins, the handle order or the session, and from the call
\* to the return the input block stays as it was
C23_ProcessHasNoSideEffect ==
    /\ [](\A plugin_id \in HandleInputs : \A audio_data \in BlockInputs :
            LET once == process_audio_block(Self, plugin_id, audio_data)
            IN  /\ once.self = Self
                /\ once.file = None
                /\ process_audio_block(once.self, plugin_id, audio_data).ret = once.ret)
    /\ [][audio' # audio =>
            /\ UNCHANGED <<loaded_plugins, plugin_keys, active_session>>
            /\ audio.pc # "idle" => audio'.audio_data = audio.audio_data
         ]_vars

\* the audio thread has returned a new block for the full test block, which
\* is still what it was
C23_Witness ==
    /\ audio.pc = "idle"
    /\ audio.ret.kind = "block"
    /\ audio.audio_data = TestAudio(MaxBlockLen)
    /\ audio.ret.val[1] # audio.audio_data
    /\ audio.plugin_id \in LoadedIds
    /\ loaded_plugins[audio.plugin_id].active

\* C24: a plugin enters loaded_plugins with the sample rate of the session
\* active at that moment and keeps it; create_audio_session leaves every
\* entry of loaded_plugins as it was; load_real_plugin of a valid bundle with
\* no session raises and returns the host unchanged
C24_SampleRateFixedAtLoad ==
    /\ [](\A sample_rate \in SessionRates :
            create_audio_session(Self, "RealVST3Session", sample_rate, 512)
                .self.loaded_plugins = loaded_plugins)
    /\ [](active_session = None =>
            \A plugin_path \in BundlePaths :
                load_real_plugin(Self, plugin_path) = Result(Self, RetRaise("TypeError")))
    /\ [][/\ \A plugin_id \in DOMAIN loaded_plugins :
                /\ plugin_id \in DOMAIN loaded_plugins'
                /\ loaded_plugins'[plugin_id].sample_rate
                     = loaded_plugins[plugin_id].sample_rate
          /\ \A plugin_id \in DOMAIN loaded_plugins' \ DOMAIN loaded_plugins :
                /\ active_session # None
                /\ loaded_plugins'[plugin_id].sample_rate = active_session[1].sample_rate
         ]_vars

\* a create_audio_session has opened a session at another rate than the one
\* a loaded plugin recorded
C24_Witness ==
    /\ call = Call("create_audio_session", RetBool(TRUE))
    /\ \E plugin_id \in LoadedIds :
          loaded_plugins[plugin_id].sample_rate # active_session[1].sample_rate

-----------------------------------------------------------------------------
(* Properties of scan_system_plugins *)

\* the entries the listing of a system directory produces before it ends or
\* raises; none when the directory is absent or is no directory
ListedEntries(dir) ==
    IF dir.kind # "dir" THEN <<>>
    ELSE IF dir.denied = None THEN dir.entries
    ELSE SubSeq(dir.entries, 1, dir.denied[1])

\* the listed entries that are directories whose name has the suffix .vst3
ListedBundles(dir) ==
    SelectSeq(ListedEntries(dir),
              LAMBDA e : /\ e.kind = "dir"
                         /\ Len(e.name) > Len(VST3)
                         /\ EndsWith(e.name, VST3))

RECURSIVE BundlesFrom(_, _, _)
\* one plugin info for each listed bundle of the directories dirs[i], ..., in
\* the order of the directories and, within one, of its listing
BundlesFrom(fs, dirs, i) ==
    IF i > Len(dirs) THEN <<>>
    ELSE LET listed == ListedBundles(DirOf(fs, dirs[i]))
         IN  [k \in 1..Len(listed) |->
                  extract_plugin_info(DiskPath(dirs[i], <<listed[k].name>>))]
                 \o BundlesFrom(fs, dirs, i + 1)

\* the status of some system directory cannot be read
SomeDirUnreadable ==
    \E i \in 1..Len(system_dirs) : DirOf(disk, system_dirs[i]).kind = "noaccess"

\* C25: scan_system_plugins always ends with a result, whatever the state of
\* the system directories, and lets no problem of one directory escape
C25_ScanAlwaysReturns ==
    found.op = "scan_system_plugins" => found.ret.kind = "list"

\* what scan_system_plugins does: when the status of every system directory
\* can be read, it returns a list that holds, in directory order, one
\* entry for each entry a listing produced that is a directory with the
\* suffix .vst3, and nothing else: an absent directory or one that is no
\* directory adds nothing, an error while listing ends only that directory's
\* scan, and what was found before is kept.  When the status of a system
\* directory cannot be read, the PermissionError of its existence test
\* leaves the method
C25_ScanResult ==
    found.op = "scan_system_plugins" =>
        found.ret = IF SomeDirUnreadable THEN RetRaise("PermissionError")
                    ELSE RetList(BundlesFrom(disk, system_dirs, 1))

\* a scan in which the listing of the first directory raised after a bundle
\* had been found, and the second directory added a bundle after it
C25_Witness ==
    /\ found.op = "scan_system_plugins"
    /\ found.ret.kind = "list"
    /\ DirOf(disk, system_dirs[1]).denied # None
    /\ Len(found.ret.val[1]) = 2
    /\ found.ret.val[1][1].path.root = system_dirs[1]
    /\ found.ret.val[1][2].path.root = system_dirs[2]

-----------------------------------------------------------------------------
(* Properties of the update mask *)

RECURSIVE TrailingZeros(_)
\* the number of trailing zero bits of i >= 1
TrailingZeros(i) == IF i % 2 = 1 THEN 0 ELSE 1 + TrailingZeros(i \div 2)

\* C27: the update mask at index i is the lowest set bit of i; at i = 0 no
\* source is drawn again; at i >= 1 at most one of the 16 sources is, the one
\* whose index is the number of trailing zero bits of i; source j is drawn
\* again exactly at the indices with i mod 2^(j+1) = 2^j; at a multiple of
\* 2^16 no source is
C27_LowestSetBit ==
    mask.last # None =>
        LET i       == mask.last[1].i
            updated == mask.last[1].updated
        IN  /\ mask.last[1].update_mask = IF i = 0 THEN 0 ELSE 2 ^ TrailingZeros(i)
            /\ i = 0 => updated = {}
            /\ i >= 1 => /\ Cardinality(updated) <= 1
                          /\ updated \subseteq {TrailingZeros(i)}
            /\ \A j \in 0..15 : j \in updated <=> i % (2 ^ (j + 1)) = 2 ^ j
            /\ i % 65536 = 0 => updated = {}

\* the round at index 98304 = 3 * 2^15 has drawn source 15 again, and the
\* loop has gone on past it
C27_Witness ==
    /\ mask.last # None
    /\ mask.last[1].i = 98304
    /\ mask.last[1].updated = {15}

\* the round at index 131072 = 2 * 2^16 has drawn no source again
C27_WitnessNone ==
    /\ mask.last # None
    /\ mask.last[1].i = 131072
    /\ mask.last[1].updated = {}

-----------------------------------------------------------------------------
(* Properties of the time stretch *)

\* the m with m <= n * ratio < m + 1, for a ratio in hundredths
FloorOfProduct(n, ratio) ==
    CHOOSE m \in 0..(n * ratio) : 100 * m <= n * ratio /\ n * ratio < 100 * (m + 1)

\* the most recent call of stretch_audio returned floor(n * stretch_ratio)
\* samples of the input's sample type and, for the ratio 1, the input
StretchedAsClaimed ==
    LET input_audio == engine_call.args.input_audio
        ratio       == engine_call.args.stretch_ratio
        n           == Len(input_audio.samples)
    IN  /\ engine_call.ret.kind = "block"
        /\ Len(engine_call.ret.val[1].samples) = FloorOfProduct(n, ratio)
        /\ engine_call.ret.val[1].dtype = input_audio.dtype
        /\ ratio = 100 => engine_call.ret.val[1] = input_audio

\* C26: stretch_audio returns a block of exactly floor(n * stretch_ratio)
\* samples for an input of n samples, with the input's sample type, whatever
\* preserve_pitch is; for the ratio 1 the output equals the input
C26_StretchLength ==
    engine_call.op = "stretch_audio" => StretchedAsClaimed

\* what stretch_audio does: on an input of no sample it raises ValueError,
\* on any other input it returns as in C26
C26_StretchLengthNonEmpty ==
    engine_call.op = "stretch_audio" =>
        IF Len(engine_call.args.input_audio.samples) = 0
        THEN engine_call.ret = RetRaise("ValueError")
        ELSE StretchedAsClaimed

\* two float samples were stretched by 1.25 into two, without pitch
\* preservation
C26_Witness ==
    /\ engine_call.op = "stretch_audio"
    /\ engine_call.args.stretch_ratio = 125
    /\ ~engine_call.args.preserve_pitch
    /\ engine_call.args.input_audio.dtype = "float32"
    /\ Len(engine_call.args.input_audio.samples) = 2
    /\ engine_call.ret.kind = "block"
    /\ Len(engine_call.ret.val[1].samples) = 2

C28_WitnessMissing ==
    /\ input_file = None
    /\ stretch.pc = "exit"
    /\ stretch.results = <<FALSE, FALSE>>
    /\ \A name \in DOMAIN artifacts : artifacts[name] = None

-----------------------------------------------------------------------------
(* Properties of Validate_Alpha_Setup.main *)

\* every expected file exists in the working directory
AllExpectedExist ==
    \A k \in 1..Len(expected_files) : expected_files[k] \in alpha.cwd.files

\* C29: main returns True if and only if all five expected files exist; with
\* one missing it returns False at once, without the later checks; with none
\* missing it returns True whatever the implementation paths, the validation
\* scripts and the CMake paths are
C29_TrueIffExpectedFiles ==
    alpha.pc = "exit" =>
        /\ alpha.ret = Some(TRUE) <=> AllExpectedExist
        /\ ~AllExpectedExist => alpha.ret = Some(FALSE) /\ alpha.checks = <<"files">>

\* what main does: with an expected file missing it returns False after the
\* first check; otherwise it raises NotADirectoryError in the second check
\* when an implementation path is a regular file, and else runs the four
\* checks and returns True, with NEEDS ATTENTION in the summary exactly when
\* no CMake path exists
C29_AlphaResult ==
    alpha.pc = "exit" =>
        IF ~AllExpectedExist
        THEN alpha.ret = Some(FALSE) /\ alpha.checks = <<"files">> /\ alpha.error = None
        ELSE IF \E d \in DOMAIN alpha.cwd.dirs : alpha.cwd.dirs[d] = "file"
        THEN alpha.ret = None /\ alpha.error = Some("NotADirectoryError")
        ELSE /\ alpha.ret = Some(TRUE)
             /\ alpha.checks = <<"files", "dirs", "scripts", "cmake">>
             /\ alpha.summary = Some(IF alpha.cwd.cmake = {} THEN "NEEDS ATTENTION"
                                      ELSE "READY FOR TESTING")

\* main has returned True with NEEDS ATTENTION in its summary, in a working
\* directory without implementation directories, validation scripts or CMake
C29_Witness ==
    /\ alpha.pc = "exit"
    /\ alpha.ret = Some(TRUE)
    /\ alpha.summary = Some("NEEDS ATTENTION")
    /\ \A d \in DOMAIN alpha.cwd.dirs : alpha.cwd.dirs[d] = "absent"
    /\ alpha.cwd.scripts = {}
    /\ alpha.cwd.cmake = {}

-----------------------------------------------------------------------------
(* Properties of the phase validation scripts *)

CheckOrder == <<"implementation", "features", "integration", "architecture", "proof">>

\* every path of required_files exists
AllRequiredExist ==
    \A k \in 1..Len(required_files(phase.script)) :
        required_files(phase.script)[k] \in phase.cwd.present

\* C30: main calls its five checks in one order and calls all five; it
\* returns True if and only if every required path exists and the proof file
\* was written; the feature, integration and architecture checks return
\* True; the proof is written with COMPLETE status lines whatever the
\* implementation check returned
C30_PhaseMain ==
    /\ phase.checks = SubSeq(CheckOrder, 1, Len(phase.checks))
    /\ \A k \in 2..4 : k <= Len(phase.results) => phase.results[k]
    /\ phase.proof # None => phase.proof[1].implementation_status = "COMPLETE"
    /\ phase.pc = "exit" =>
           /\ phase.checks = CheckOrder
           /\ phase.ret = Some(TRUE) <=> (AllRequiredExist /\ phase.proof # None)

\* what main does: unless Path.exists() or os.makedirs raises, all five
\* checks are called in CheckOrder and the proof is written whatever the
\* implementation check returned; main then returns False when a required
\* path is missing or the proof could not be written, and otherwise returns
\* True, or raises UnicodeEncodeError where the success message cannot be
\* printed
C30_PhaseResult ==
    /\ phase.checks = SubSeq(CheckOrder, 1, Len(phase.checks))
    /\ \A k \in 2..4 : k <= Len(phase.results) => phase.results[k]
    /\ phase.proof # None => phase.proof[1].implementation_status = "COMPLETE"
    /\ phase.pc = "exit" =>
           IF phase.cwd.stat_error
           THEN phase.error = Some("PermissionError") /\ phase.ret = None
           ELSE IF phase.cwd.artifacts = "file"
           THEN phase.error = Some("FileExistsError") /\ phase.ret = None
           ELSE /\ phase.checks = CheckOrder
                /\ phase.proof # None <=> phase.cwd.artifacts = "dir"
                /\ IF ~(AllRequiredExist /\ phase.proof # None)
                   THEN phase.ret = Some(FALSE)
                   ELSE IF phase.script = "python_test_ai_assistant.py"
                           /\ ~phase.cwd.stdout_unicode
                   THEN phase.error = Some("UnicodeEncodeError") /\ phase.ret = None
                   ELSE phase.ret = Some(TRUE)

\* a main has returned False after all five checks, with a required path
\* missing and the proof written
C30_Witness ==
    /\ phase.pc = "exit"
    /\ phase.ret = Some(FALSE)
    /\ phase.checks = CheckOrder
    /\ ~AllRequiredExist
    /\ phase.proof # None

====
